---------------------------- MODULE Spec2Model ----------------------------
(***************************************************************************)
(* json-notify: the monitoring cycle checkJsonUpdates (index.ts), its      *)
(* run-guard isJobRunning, and the collaborators it awaits: the fetcher,   *)
(* the state store, the comparer, the AI summarizer and the Telegram       *)
(* notifier.  Every awaited collaborator call is a suspension point: the   *)
(* call is issued by one action and completed by a later one, so scheduler *)
(* callbacks interleave exactly where the event loop lets them.            *)
(***************************************************************************)
EXTENDS Integers, Sequences, FiniteSets, TLC

(***************************************************************************)
(* Bounds of the model.                                                    *)
(***************************************************************************)
\* number of invocations of checkJsonUpdates in one behaviour
\* (the startup invocation plus the scheduler callbacks)
MaxTriggers == 4

\* number of segments in a ChangeSet handed to generateChangeSummary on its own
MaxSegments == 2

\* number of chunks in a text handed to escapeMarkdownV2 on its own
MaxTextLen == 3

\* number of calls of fetchJsonData made in a row on their own
MaxFetchCalls == 4

\* number of calls of readLastState and writeState made in a row on their own
MaxStoreCalls == 3

\* number of calls of sendTelegramNotification in the life of the module
MaxNotifyCalls == 4

(***************************************************************************)
(* JSON values.  Every value is a record of one shape; t is its JSON type. *)
(* An object keeps its members in insertion order (kv), an array its       *)
(* elements (items).                                                       *)
(***************************************************************************)
JNull == [t |-> "null", n |-> 0, s |-> "", items |-> <<>>, kv |-> <<>>]

JBool(b) == [t |-> "bool", n |-> IF b THEN 1 ELSE 0, s |-> "", items |-> <<>>, kv |-> <<>>]

JNum(n) == [t |-> "num", n |-> n, s |-> "", items |-> <<>>, kv |-> <<>>]

JStr(s) == [t |-> "str", n |-> 0, s |-> s, items |-> <<>>, kv |-> <<>>]

JArr(items) == [t |-> "arr", n |-> 0, s |-> "", items |-> items, kv |-> <<>>]

JObj(kv) == [t |-> "obj", n |-> 0, s |-> "", items |-> <<>>, kv |-> kv]

\* the value of a local that holds nothing yet (an unassigned const, or null
\* as readLastState returns it for a missing file)
Absent == [t |-> "absent", n |-> 0, s |-> "", items |-> <<>>, kv |-> <<>>]

\* typeof v === 'object' && v !== null: true of objects and of arrays
IsObjectType(v) == v.t \in {"obj", "arr"}

\* the order of the member names used in the model (code-unit order)
KeyRank(k) == CASE k = "a" -> 1 [] k = "b" -> 2 [] k = "c" -> 3 [] OTHER -> 4

RECURSIVE InsertByKey(_, _)
InsertByKey(pair, sorted) ==
    IF sorted = <<>> THEN <<pair>>
    ELSE IF KeyRank(pair[1]) <= KeyRank(Head(sorted)[1])
         THEN <<pair>> \o sorted
         ELSE <<Head(sorted)>> \o InsertByKey(pair, Tail(sorted))

RECURSIVE SortByKey(_)
SortByKey(kv) ==
    IF kv = <<>> THEN <<>> ELSE InsertByKey(Head(kv), SortByKey(Tail(kv)))

\* fast-json-stable-stringify: the serialization with the members of every
\* object, at every depth, in sorted key order.  The text is represented by
\* the key-sorted value it denotes (the rendering of a sorted value is one to
\* one).
RECURSIVE stringify(_)
stringify(v) ==
    CASE v.t = "obj" ->
           LET sorted == SortByKey(v.kv)
           IN  JObj([i \in 1..Len(sorted) |-> <<sorted[i][1], stringify(sorted[i][2])>>])
      [] v.t = "arr" -> JArr([i \in 1..Len(v.items) |-> stringify(v.items[i])])
      [] OTHER -> v

\* canonicalize of the diff library: the value with the members of every
\* object in sorted key order
RECURSIVE canonicalize(_)
canonicalize(v) ==
    CASE v.t = "obj" ->
           LET sorted == SortByKey(v.kv)
           IN  JObj([i \in 1..Len(sorted) |-> <<sorted[i][1], canonicalize(sorted[i][2])>>])
      [] v.t = "arr" -> JArr([i \in 1..Len(v.items) |-> canonicalize(v.items[i])])
      [] OTHER -> v

\* one line of JSON.stringify(canonicalize(v), null, '  '): its depth, the
\* member name it opens with ("" for none), its token and whether a comma
\* ends it
Line(d, k, tok, comma) == [d |-> d, k |-> k, tok |-> tok, comma |-> comma]

ScalarToken(v) ==
    CASE v.t = "null" -> "null"
      [] v.t = "bool" -> IF v.n = 1 THEN "true" ELSE "false"
      [] v.t = "num" -> ToString(v.n)
      [] OTHER -> "\"" \o v.s \o "\""

RECURSIVE PrettyLines(_, _, _, _)
RECURSIVE PrettyMembers(_, _, _)
RECURSIVE PrettyItems(_, _, _)
PrettyLines(v, d, k, comma) ==
    CASE v.t = "obj" ->
           IF v.kv = <<>> THEN <<Line(d, k, "{}", comma)>>
           ELSE <<Line(d, k, "{", FALSE)>> \o PrettyMembers(v.kv, d + 1, 1)
                \o <<Line(d, "", "}", comma)>>
      [] v.t = "arr" ->
           IF v.items = <<>> THEN <<Line(d, k, "[]", comma)>>
           ELSE <<Line(d, k, "[", FALSE)>> \o PrettyItems(v.items, d + 1, 1)
                \o <<Line(d, "", "]", comma)>>
      [] OTHER -> <<Line(d, k, ScalarToken(v), comma)>>

PrettyMembers(kv, d, i) ==
    IF i > Len(kv) THEN <<>>
    ELSE PrettyLines(kv[i][2], d, kv[i][1], i < Len(kv)) \o PrettyMembers(kv, d, i + 1)

PrettyItems(items, d, i) ==
    IF i > Len(items) THEN <<>>
    ELSE PrettyLines(items[i], d, "", i < Len(items)) \o PrettyItems(items, d, i + 1)

\* jsonDiff.equals: two lines are equal when they agree up to a trailing comma
LineEquals(l, r) == l.d = r.d /\ l.k = r.k /\ l.tok = r.tok

RECURSIVE LcsLen(_, _)
LcsLen(old, new) ==
    IF old = <<>> \/ new = <<>> THEN 0
    ELSE IF LineEquals(Head(old), Head(new))
         THEN 1 + LcsLen(Tail(old), Tail(new))
         ELSE LET dropOld == LcsLen(Tail(old), new)
                  dropNew == LcsLen(old, Tail(new))
              IN  IF dropOld >= dropNew THEN dropOld ELSE dropNew

\* the line diff: every line tagged unchanged, removed or added, a removal
\* before an addition where both are possible
RECURSIVE diffLines(_, _)
diffLines(old, new) ==
    IF old = <<>> THEN [i \in 1..Len(new) |-> [tag |-> "added", line |-> new[i]]]
    ELSE IF new = <<>> THEN [i \in 1..Len(old) |-> [tag |-> "removed", line |-> old[i]]]
    ELSE IF LineEquals(Head(old), Head(new))
         THEN <<[tag |-> "same", line |-> Head(new)]>> \o diffLines(Tail(old), Tail(new))
         ELSE IF LcsLen(Tail(old), new) >= LcsLen(old, Tail(new))
              THEN <<[tag |-> "removed", line |-> Head(old)]>> \o diffLines(Tail(old), new)
              ELSE <<[tag |-> "added", line |-> Head(new)]>> \o diffLines(old, Tail(new))

\* a Change of the diff library: the lines of one run and its two flags
Change(tag, lines) ==
    [value |-> lines, added |-> tag = "added", removed |-> tag = "removed"]

ChangeTag(c) == IF c.added THEN "added" ELSE IF c.removed THEN "removed" ELSE "same"

\* consecutive lines of one tag make one Change
RECURSIVE GroupRuns(_, _)
GroupRuns(tagged, acc) ==
    IF tagged = <<>> THEN acc
    ELSE LET h == Head(tagged)
         IN  IF acc # <<>> /\ ChangeTag(acc[Len(acc)]) = h.tag
             THEN GroupRuns(Tail(tagged),
                            [acc EXCEPT ![Len(acc)].value = @ \o <<h.line>>])
             ELSE GroupRuns(Tail(tagged), acc \o <<Change(h.tag, <<h.line>>)>>)

\* diffJson(oldState, newState): both canonicalized (keys sorted), pretty
\* printed, and diffed line by line
diffJson(oldState, newState) ==
    GroupRuns(diffLines(PrettyLines(canonicalize(oldState), 0, "", FALSE),
                        PrettyLines(canonicalize(newState), 0, "", FALSE)), <<>>)

\* Array.prototype.filter(part => part.added || part.removed)
FilterChanged(changes) == SelectSeq(changes, LAMBDA c : c.added \/ c.removed)

\* what compareJson returns for "no changes"
NullChanges == <<>>

\* a comparison that takes the members in insertion order: JSON.stringify
\* for the equality test and a line diff of the states as they are
compareJsonInsertionOrder(oldState, newState) ==
    IF oldState = newState THEN NullChanges
    ELSE FilterChanged(GroupRuns(diffLines(PrettyLines(oldState, 0, "", FALSE),
                                           PrettyLines(newState, 0, "", FALSE)), <<>>))

\* a comparison that returns the diff as diffJson gives it, unchanged parts
\* included
compareJsonUnfiltered(oldState, newState) ==
    IF stringify(oldState) = stringify(newState) THEN NullChanges
    ELSE diffJson(oldState, newState)

\* compareJson(oldState, newState): null (the empty sequence here) when the
\* stable serializations agree, else the added/removed parts of the diff
compareJson(oldState, newState) ==
    IF stringify(oldState) = stringify(newState) THEN NullChanges
    ELSE FilterChanged(diffJson(oldState, newState))

(***************************************************************************)
(* The fetcher (fetcher.ts).                                               *)
(***************************************************************************)
\* a fetcher that does not look at the status of the response
responseOkAlways(status) == TRUE

\* response.ok: the status is in the range 200-299
responseOk(status) == status >= 200 /\ status <= 299

\* how a call of fetchJsonData settles
FetchResolved(data) == [settled |-> "resolved", result |-> data, thrown |-> "none"]

\* catch (error) { console.error(...); throw error; }
fetcherCatch(error) == [settled |-> "rejected", result |-> Absent, thrown |-> error]

(***************************************************************************)
(* The state store (storage.ts).  The content of the state file is the     *)
(* sequence of lines JSON.stringify(state, null, 2) writes.                *)
(***************************************************************************)
\* a serialization that writes every nested object and array as an empty one
serializeStateShallow(state) ==
    PrettyLines(
        CASE state.t = "obj" ->
               JObj([i \in 1..Len(state.kv) |->
                       <<state.kv[i][1],
                         IF state.kv[i][2].t = "obj" THEN JObj(<<>>)
                         ELSE IF state.kv[i][2].t = "arr" THEN JArr(<<>>)
                         ELSE state.kv[i][2]>>])
          [] OTHER -> state,
        0, "", FALSE)

\* JSON.stringify(state, null, 2): the members in insertion order
serializeState(state) == PrettyLines(state, 0, "", FALSE)

\* a file content that is not JSON
Unparseable == <<Line(0, "", "<not json>", FALSE)>>

\* the scalar values of the model, by which a scalar token is read back
ScalarValues ==
    {JNull, JBool(TRUE), JBool(FALSE), JNum(0), JNum(1), JNum(2), JStr("x"), JStr("1")}

parseScalar(tok) == CHOOSE v \in ScalarValues : ScalarToken(v) = tok

\* JSON.parse, by recursive descent over the lines: the value that starts at
\* line i and the line after it
RECURSIVE parseValue(_, _)
RECURSIVE parseMembers(_, _, _)
RECURSIVE parseItems(_, _, _)
parseValue(lines, i) ==
    CASE lines[i].tok = "{" ->
           LET r == parseMembers(lines, i + 1, <<>>)
           IN  [value |-> JObj(r.acc), next |-> r.next]
      [] lines[i].tok = "[" ->
           LET r == parseItems(lines, i + 1, <<>>)
           IN  [value |-> JArr(r.acc), next |-> r.next]
      [] lines[i].tok = "{}" -> [value |-> JObj(<<>>), next |-> i + 1]
      [] lines[i].tok = "[]" -> [value |-> JArr(<<>>), next |-> i + 1]
      [] OTHER -> [value |-> parseScalar(lines[i].tok), next |-> i + 1]

parseMembers(lines, i, acc) ==
    IF lines[i].tok = "}" THEN [acc |-> acc, next |-> i + 1]
    ELSE LET r == parseValue(lines, i)
         IN  parseMembers(lines, r.next, Append(acc, <<lines[i].k, r.value>>))

parseItems(lines, i, acc) ==
    IF lines[i].tok = "]" THEN [acc |-> acc, next |-> i + 1]
    ELSE LET r == parseValue(lines, i)
         IN  parseItems(lines, r.next, Append(acc, r.value))

\* JSON.parse(data) of a content that is JSON
parseState(data) == parseValue(data, 1).value

\* how a call of the store settles: with a value (Absent for null or for
\* nothing), or with the error thrown
StoreResolved(value) == [settled |-> "resolved", result |-> value, thrown |-> "none"]

StoreRejected(error) == [settled |-> "rejected", result |-> Absent, thrown |-> error]

\* a catch block that takes every failure for a missing file
readCatchAbsorbsAll(error) == StoreResolved(Absent)

\* readLastState's catch: ENOENT is "no file yet", anything else is thrown on
readCatch(error) ==
    IF error = "ENOENT" THEN StoreResolved(Absent) ELSE StoreRejected(error)

\* writeState's catch: logged and thrown on
writeCatch(error) == StoreRejected(error)

(***************************************************************************)
(* Texts.  A text is a sequence of chunks: a chunk is one special          *)
(* character (a MarkdownV2 reserved character or a backslash) or a run of  *)
(* other characters.                                                       *)
(***************************************************************************)
\* the grave accent, which a string of this language cannot hold
Backtick == "<grave>"

\* the character class of escapeMarkdownV2's regular expression
Reserved == {"_", "*", "[", "]", "(", ")", "~", Backtick, ">", "#", "+", "-", "=", "|",
             "{", "}", ".", "!"}

Backslash == "\\"

\* text.replace with the negative lookbehind for a backslash: a reserved
\* character gets a backslash in front unless the character before it in the
\* input is a backslash
RECURSIVE escapeFrom(_, _)
escapeFrom(text, i) ==
    IF i > Len(text) THEN <<>>
    ELSE (IF text[i] \in Reserved /\ (i = 1 \/ text[i - 1] # Backslash)
          THEN <<Backslash, text[i]>>
          ELSE <<text[i]>>) \o escapeFrom(text, i + 1)

\* the replacement without the lookbehind: every reserved character gets a
\* backslash
RECURSIVE escapeEveryFrom(_, _)
escapeEveryFrom(text, i) ==
    IF i > Len(text) THEN <<>>
    ELSE (IF text[i] \in Reserved THEN <<Backslash, text[i]>> ELSE <<text[i]>>)
         \o escapeEveryFrom(text, i + 1)

escapeMarkdownV2Always(text) == escapeEveryFrom(text, 1)

escapeMarkdownV2(text) == escapeFrom(text, 1)

\* 'x'.repeat(n): a run of n characters in one chunk
RECURSIVE repeat(_, _)
repeat(ch, n) ==
    IF n = 0 THEN ""
    ELSE IF n % 2 = 0 THEN LET half == repeat(ch, n \div 2) IN half \o half
         ELSE ch \o repeat(ch, n - 1)

\* the number of characters of a chunk
chunkLength(c) == IF c = Backtick THEN 1 ELSE Len(c)

\* text.length
RECURSIVE lengthFrom(_, _)
lengthFrom(text, i) ==
    IF i > Len(text) THEN 0 ELSE chunkLength(text[i]) + lengthFrom(text, i + 1)

textLength(text) == lengthFrom(text, 1)

\* text.substring(0, n): the first n characters, a run being cut where the
\* count is reached
RECURSIVE substringFrom(_, _, _)
substringFrom(text, i, n) ==
    IF i > Len(text) \/ n <= 0 THEN <<>>
    ELSE IF chunkLength(text[i]) <= n
         THEN <<text[i]>> \o substringFrom(text, i + 1, n - chunkLength(text[i]))
         ELSE <<SubSeq(text[i], 1, n)>>

substring(text, n) == substringFrom(text, 1, n)

(***************************************************************************)
(* The summarizer (aiProcessor.ts).                                        *)
(***************************************************************************)
defaultErrorResult ==
    [isWorthToReport |-> FALSE,
     reportedChanges |-> <<"Error generating change summary", ".">>]

defaultNoChangesResult ==
    [isWorthToReport |-> FALSE, reportedChanges |-> <<"No changes detected", ".">>]

\* the members ChangeSummarySchema names, both required
SchemaMembers == {"isWorthToReport", "reportedChanges"}

\* the member sets of the objects the provider may return: the two of the
\* schema, these and one more, and objects that lack one or both
AiMemberSets ==
    {SchemaMembers, SchemaMembers \cup {"extra"}, {"reportedChanges"},
     {"isWorthToReport"}, {}}

\* the summaries the provider may return in an object
AiTexts == {<<>>, <<"a">>, <<"a", "!">>, <<Backslash, "!">>}

\* the outcomes of the generateObject call: a rejection, or an object with
\* some of the members (the value of a member the object lacks is not read)
AiOutcomes ==
    {[kind |-> "throws", members |-> {}, isWorthToReport |-> FALSE, reportedChanges |-> <<>>]}
    \cup {[kind |-> "object", members |-> m, isWorthToReport |-> w, reportedChanges |-> txt] :
            m \in AiMemberSets, w \in BOOLEAN, txt \in AiTexts}

\* a schema without required members: every object parses
matchesSchemaLoosely(o) == TRUE

\* ChangeSummarySchema.safeParse(object).success: both members are there; a
\* z.object schema accepts members it does not name
matchesSchema(o) == SchemaMembers \subseteq o.members

\* parsedResult.error.message: one issue for each required member the object
\* lacks, with the member's path
zodIssues(o) ==
    (IF "isWorthToReport" \in o.members THEN <<>> ELSE <<"Required: isWorthToReport">>)
    \o (IF "reportedChanges" \in o.members THEN <<>> ELSE <<"Required: reportedChanges">>)

\* the result for an object that fails ChangeSummarySchema.safeParse
validationFailedResult(o) ==
    [isWorthToReport |-> FALSE,
     reportedChanges |-> <<"Error: AI response did not match expected format", ".",
                           " Details: ">> \o zodIssues(o) \o <<".", " ">>
                         \o defaultErrorResult.reportedChanges]

\* parsedResult.data: the two members of the schema; a z.object schema strips
\* every other member of the parsed object
parsedData(o) ==
    [isWorthToReport |-> o.isWorthToReport, reportedChanges |-> o.reportedChanges]

\* how a call of generateChangeSummary settles: it resolves with a value or
\* it rejects
Resolved(value) == [settled |-> "resolved", value |-> value]

Rejected == [settled |-> "rejected", value |-> defaultErrorResult]

\* a catch block that logs and throws the error again
summaryCatchRethrows(o) == Rejected

\* catch (error) { ...; return defaultErrorResult; }
summaryCatch(o) == Resolved(defaultErrorResult)

\* how generateChangeSummary settles once generateObject has completed with
\* outcome o (the try block and its catch)
summaryFromOutcome(o) ==
    IF o.kind = "throws" THEN summaryCatch(o)
    ELSE IF matchesSchema(o) THEN Resolved(parsedData(o))
         ELSE Resolved(validationFailedResult(o))

\* the length tested before the filter: unchanged segments count as changes
summaryCallsProviderUnfiltered(changes) == Len(changes) > 0

\* generateChangeSummary up to its await: TRUE when the provider is called,
\* FALSE when the function short-circuits to defaultNoChangesResult
summaryCallsProvider(changes) == Len(FilterChanged(changes)) > 0

\* one line of a part's value as text: two spaces of indentation per depth,
\* the member name, the token, the comma
lineText(l, indented) ==
    (IF indented THEN repeat("  ", l.d) ELSE "")
    \o (IF l.k # "" THEN "\"" \o l.k \o "\": " ELSE "")
    \o l.tok
    \o (IF l.comma THEN "," ELSE "")

\* part.value.trim(): the lines joined by newlines, without the indentation
\* of the first line and without the newline that ends the last
RECURSIVE trimmedFrom(_, _)
trimmedFrom(lines, i) ==
    IF i > Len(lines) THEN ""
    ELSE (IF i = 1 THEN lineText(lines[i], FALSE) ELSE "\n" \o lineText(lines[i], TRUE))
         \o trimmedFrom(lines, i + 1)

trimmedValue(lines) == trimmedFrom(lines, 1)

\* filteredChanges.forEach(...): prefix, content and newline of every part,
\* and the separator between two parts
RECURSIVE formatParts(_, _)
formatParts(parts, i) ==
    IF i > Len(parts) THEN ""
    ELSE (IF parts[i].added THEN "[ADDED]" ELSE "[REMOVED]") \o " "
         \o trimmedValue(parts[i].value) \o "\n"
         \o (IF i < Len(parts) THEN "---\n" ELSE "")
         \o formatParts(parts, i + 1)

\* formatDiffForAI(changes): the rendering of a ChangeSet
formatDiffForAI(changes) == "Detected changes:\n\n" \o formatParts(FilterChanged(changes), 1)

\* const maxDiffLength = 3000
maxDiffLength == 3000

\* a cut without the marker
truncatedDiffUnmarked(formattedDiff) ==
    IF Len(formattedDiff) > maxDiffLength
    THEN SubSeq(formattedDiff, 1, maxDiffLength)
    ELSE formattedDiff

\* truncatedDiff: the rendering, cut after maxDiffLength characters and
\* marked when it is longer
truncatedDiff(formattedDiff) ==
    IF Len(formattedDiff) > maxDiffLength
    THEN SubSeq(formattedDiff, 1, maxDiffLength) \o "\n... [diff truncated] ..."
    ELSE formattedDiff

\* the clause of the system prompt that names the configured criteria
criteriaClause(customContext) ==
    <<"CRITERIA FOR SIGNIFICANCE: \"", customContext,
      "\". Determine if the detected changes meet these criteria. If they do, set ",
      Backtick, "isWorthToReport", Backtick,
      " to true. If they do not, set it to false.">>

\* the clause that makes every change significant
anyChangeClause ==
    <<"Since no specific reporting criteria are provided, consider ANY detected changes significant enough to report. Set ",
      Backtick, "isWorthToReport", Backtick, " to true.">>

\* a prompt that always names the criteria, configured or not
systemPromptAlwaysCriteria(customContext) ==
    <<"You are an assistant analyzing changes detected in a JSON object.",
      "Input Diff Format:", "Tasks:">>
    \o criteriaClause(customContext)
    \o <<"Output Format:">>

\* systemPrompt: the fixed parts and, between them, the clause chosen by
\* customContext ? ... : ... (undefined and the empty string are falsy)
systemPrompt(customContext) ==
    <<"You are an assistant analyzing changes detected in a JSON object.",
      "Input Diff Format:", "Tasks:">>
    \o (IF customContext # "" THEN criteriaClause(customContext) ELSE anyChangeClause)
    \o <<"Output Format:">>

(***************************************************************************)
(* The notifier (notifier.ts): the lazily built Telegram client.           *)
(***************************************************************************)
\* the module state before the first notification; ctorCalls counts the
\* evaluations of new TelegramBot(token)
NotifierInit ==
    [isBotInitialized |-> FALSE, botInstance |-> "null", botInitializationError |-> FALSE,
     ctorCalls |-> 0]

\* an initialisation that is attempted again while there is no client
getBotInstanceRetries(nf, cfg, ctorThrows) ==
    IF nf.botInstance = "bot" THEN nf
    ELSE IF cfg.telegramBotToken # "" /\ cfg.telegramChatId # ""
         THEN IF ctorThrows
              THEN [isBotInitialized |-> TRUE, botInstance |-> "null",
                    botInitializationError |-> TRUE, ctorCalls |-> nf.ctorCalls + 1]
              ELSE [isBotInitialized |-> TRUE, botInstance |-> "bot",
                    botInitializationError |-> FALSE, ctorCalls |-> nf.ctorCalls + 1]
         ELSE [isBotInitialized |-> TRUE, botInstance |-> "null",
               botInitializationError |-> FALSE, ctorCalls |-> nf.ctorCalls]

\* an initialisation that does not look at the credentials
getBotInstanceUnchecked(nf, cfg, ctorThrows) ==
    IF nf.isBotInitialized THEN nf
    ELSE IF ctorThrows
         THEN [isBotInitialized |-> TRUE, botInstance |-> "null",
               botInitializationError |-> TRUE, ctorCalls |-> nf.ctorCalls + 1]
         ELSE [isBotInitialized |-> TRUE, botInstance |-> "bot",
               botInitializationError |-> FALSE, ctorCalls |-> nf.ctorCalls + 1]

\* getBotInstance(): the module state after the call; ctorThrows says whether
\* new TelegramBot(token) throws, should it be called
getBotInstance(nf, cfg, ctorThrows) ==
    IF nf.isBotInitialized THEN nf
    ELSE IF cfg.telegramBotToken # "" /\ cfg.telegramChatId # ""
         THEN IF ctorThrows
              THEN [isBotInitialized |-> TRUE, botInstance |-> "null",
                    botInitializationError |-> TRUE, ctorCalls |-> nf.ctorCalls + 1]
              ELSE [isBotInitialized |-> TRUE, botInstance |-> "bot",
                    botInitializationError |-> FALSE, ctorCalls |-> nf.ctorCalls + 1]
         ELSE [isBotInitialized |-> TRUE, botInstance |-> "null",
               botInitializationError |-> FALSE, ctorCalls |-> nf.ctorCalls]

\* the outcomes of bot.sendMessage: it resolves, or rejects with an Error, with
\* another object, or with null/undefined
SendOutcomes == {"resolved", "rejectedError", "rejectedObject", "rejectedNullish"}

\* sendTelegramNotification's catch handler evaluates error.message || error:
\* that throws a TypeError when the rejection value is null or undefined, and
\* the function then rejects; every other outcome is logged and swallowed
sendHandlerThrows(outcome) == outcome = "rejectedNullish"

\* a notifier that drops its client when a send fails, to build a new one at
\* the next call
notifierAfterSendDropsClient(nf, outcome) ==
    IF outcome = "resolved" THEN nf
    ELSE [nf EXCEPT !.isBotInitialized = FALSE, !.botInstance = "null"]

\* the module state once bot.sendMessage has settled: neither the success
\* path nor the catch handler assigns botInstance, isBotInitialized or
\* botInitializationError
notifierAfterSend(nf, outcome) == nf

\* one line written with console.log, console.warn or console.error: its
\* fixed text and the notification message it carries ("" for none)
LogEntry(text, message) == [text |-> text, message |-> message]

\* what sendTelegramNotification logs when there is no client
skipLog(nf, message) ==
    <<LogEntry(IF nf.botInitializationError
               THEN "Telegram bot failed to initialize. Skipping notification."
               ELSE "Telegram notifications are disabled. Skipping notification.", ""),
      LogEntry("[Telegram Notification Skipped]:", message)>>
    \o (IF nf.botInitializationError
        THEN <<LogEntry("Initialization error details:", "")>> ELSE <<>>)

\* what it logs before the send
sendingLog == <<LogEntry("Sending notification to Telegram chat ID", "")>>

\* what it logs once bot.sendMessage has settled.  The catch handler reads
\* error.message first: when that throws, nothing of the handler is logged.
settledLog(outcome, message) ==
    IF outcome = "resolved"
    THEN <<LogEntry("Successfully sent notification to Telegram.", "")>>
    ELSE IF sendHandlerThrows(outcome) THEN <<>>
         ELSE <<LogEntry("Error sending Telegram notification:", ""),
                LogEntry("[Failed Telegram Message]:", message)>>


(***************************************************************************)
(* The inputs of the model.                                                *)
(***************************************************************************)
ObjA1 == JObj(<< <<"a", JNum(1)>> >>)

ObjA2 == JObj(<< <<"a", JNum(2)>> >>)

ObjAB == JObj(<< <<"a", JNum(1)>>, <<"b", JObj(<< <<"a", JNum(1)>>, <<"c", JNum(2)>> >>)>> >>)

\* ObjAB with the members in another insertion order, at both depths
ObjBA == JObj(<< <<"b", JObj(<< <<"c", JNum(2)>>, <<"a", JNum(1)>> >>)>>, <<"a", JNum(1)>> >>)

ArrOne == JArr(<<JNum(1)>>)

\* the bodies response.json() may parse to
FetchValues == {ObjA1, ObjA2, ObjAB, ObjBA, ArrOne, JNull, JNum(1), JStr("x"), JBool(TRUE)}

\* the snapshots an earlier run of the process may have left in the state file
InitialFiles == {Absent, ObjA1, ObjBA}

\* the configurations the core may be given.  The notifier handles a
\* configuration without a token or a chat id (its Disabled state), so both
\* are kept although config.ts itself refuses to load without them; the
\* schedule expression is one node-schedule accepts or one it does not.
Configs ==
    [telegramBotToken : {"", "token"}, telegramChatId : {"", "chat"},
     telegramNotifyOnStart : BOOLEAN, checkIntervalCron : {"valid", "invalid"},
     openaiCustomPromptContext : {""}]

(***************************************************************************)
(* The state.                                                              *)
(***************************************************************************)
VARIABLES
    config,        \* the loaded configuration (read-only)
    mainPc,        \* where main() stands
    processExit,   \* "none" while the process lives, else why it exited with code 1
    isJobRunning,  \* the run-guard of index.ts
    invocations,   \* one record per call of checkJsonUpdates, in call order
    stateFile,     \* the snapshot in the state file, Absent when there is no file
    notifier,      \* botInstance, botInitializationError, isBotInitialized
    shutdown,      \* "none" until SIGINT arrives, then how far the shutdown has got
    call,          \* a function called on its own, as its tests call it
    startup        \* what main() has done about the startup notification

vars == <<config, mainPc, processExit, isJobRunning, invocations, stateFile, notifier,
          shutdown, call, startup>>

\* main() has not yet reached the startup notification: how often it has
\* called sendTelegramNotification, how often that issued bot.sendMessage, and
\* how the call ended
NoStartup == [notifications |-> 0, sends |-> 0, delivery |-> "none"]

NoSummary == [isWorthToReport |-> FALSE, reportedChanges |-> <<"<none>">>]

NoMessage == [kind |-> "none", header |-> "", body |-> <<>>]

NoOutcome == [kind |-> "none", members |-> {}, isWorthToReport |-> FALSE, reportedChanges |-> <<>>]

\* no function is being called on its own: the program runs from main()
NoCall ==
    [fn |-> "none", pc |-> "none", changes |-> <<>>, outcome |-> NoOutcome,
     settled |-> "pending", result |-> NoSummary, aiCalls |-> 0,
     systemPrompt |-> <<>>, userPrompt |-> ""]

\* no error notification has been composed
NoErrorText == [kind |-> "none", header |-> "", body |-> <<>>, marker |-> ""]

\* a call of checkJsonUpdates that has just been made: its position, its
\* locals, and what it has asked of each collaborator so far
NewInvocation(source) ==
    [source |-> source, pc |-> "entry", result |-> "pending",
     currentState |-> Absent, lastState |-> Absent, readReturned |-> FALSE,
     aiResult |-> NoSummary, changeMessage |-> NoMessage, error |-> "none",
     written |-> Absent, errorNotificationFailed |-> FALSE, errorText |-> NoErrorText,
     fetches |-> 0, reads |-> 0, compares |-> 0, aiCalls |-> 0, changeNotifications |-> 0,
     errorNotifications |-> 0, sends |-> 0, writes |-> 0]

\* the positions at which a cycle is executing (between guard acquisition and
\* the finally block)
RunningPcs == {"fetch", "json", "read", "ai", "send", "write", "errorSend"}

\* a finished cycle whose locals are no longer observed: only that it ran, and
\* how it ended, is kept
Retire(inv) ==
    IF inv.pc = "done"
    THEN [NewInvocation(inv.source) EXCEPT !.pc = "retired", !.result = inv.result]
    ELSE inv

Init ==
    /\ config \in Configs
    /\ mainPc = "start"
    /\ processExit = "none"
    /\ isJobRunning = FALSE
    /\ invocations = <<>>
    /\ stateFile \in InitialFiles
    /\ notifier = NotifierInit
    /\ shutdown = "none"
    /\ startup = NoStartup
    /\ call = NoCall

(***************************************************************************)
(* checkJsonUpdates, from one suspension point to the next.  A step works  *)
(* on a context: the invocation's record, the notifier's module state, the *)
(* guard and the state file.                                               *)
(***************************************************************************)
\* the guard test left out: a trigger never finds the guard held
guardNeverBlocks(running) == FALSE

\* if (isJobRunning) { ...; return; }
guardBlocks(running) == running

\* the release written at the end of the try block instead: an exception
\* leaves the guard held
guardReleasedOnSuccessOnly(ctx) == ctx.inv.error # "none"

\* finally { isJobRunning = false; }: the guard value after the block
guardAfterFinally(ctx) == FALSE

\* the finally block, reached with or without an exception in flight
finallyBlock(ctx, thrown) ==
    [ctx EXCEPT !.inv.pc = "done",
                !.inv.result = IF thrown THEN "rejected" ELSE "resolved",
                !.guard = guardAfterFinally(ctx)]

\* a notifier that sends every message twice
sendTelegramNotificationTwice(ctx, ctorThrows) ==
    LET nf == getBotInstance(ctx.nf, config, ctorThrows)
    IN  [ctx EXCEPT !.nf = nf,
                    !.inv.sends = IF nf.botInstance = "bot" THEN @ + 2 ELSE @]

\* sendTelegramNotification(message) up to its await: the client is fetched
\* (and built on first use); with a client, bot.sendMessage is issued
sendTelegramNotification(ctx, ctorThrows) ==
    LET nf == getBotInstance(ctx.nf, config, ctorThrows)
    IN  [ctx EXCEPT !.nf = nf,
                    !.inv.sends = IF nf.botInstance = "bot" THEN @ + 1 ELSE @]

\* the error notification awaited without a try/catch of its own
errorNotificationUncaught(thrown) == thrown

\* does the inner try/catch around the error notification let an exception of
\* sendTelegramNotification escape the catch block?
errorNotificationEscapes(thrown) == FALSE

\* errorMessage.substring(0, 500)
maxErrorLength == 500

\* String(error instanceof Error ? error.stack || error.message : error) for
\* the errors of the model: texts shorter than the limit, of exactly its
\* length, and longer, with the cut at a chunk's end and inside a run
errorDescription(error) ==
    CASE error = "validation" ->
             <<"Error: Fetched data is not a valid JSON object", ".">>
      [] error = "fetch" -> <<repeat("x", maxErrorLength + 100), ".">>
      [] error = "storage" -> <<repeat("x", maxErrorLength - 1), "!", "_", "y">>
      [] error = "notifier" -> <<repeat("x", maxErrorLength - 1), "!">>
      [] OTHER -> <<"Error: ", "(", "x", ")">>

\* an error notification that carries the whole description
errorNotificationTextWhole(errorMessage) ==
    [kind |-> "error", header |-> "*Error checking JSON updates*:",
     body |-> escapeMarkdownV2(errorMessage), marker |-> ""]

\* the text of the error notification: the header, the escaped first
\* characters of the description in a code block, and the marker of a cut
errorNotificationText(errorMessage) ==
    [kind |-> "error", header |-> "*Error checking JSON updates*:",
     body |-> escapeMarkdownV2(substring(errorMessage, maxErrorLength)),
     marker |-> IF textLength(errorMessage) > maxErrorLength
                THEN "...[truncated]" ELSE ""]

\* the error notification of each exception the collaborators throw
errorNotificationOf ==
    [error \in {"fetch", "validation", "storage", "summarizer", "notifier"} |->
        errorNotificationText(errorDescription(error))]

\* a catch block that only logs
catchBlockSilent(ctx, error, ctorThrows) ==
    finallyBlock([ctx EXCEPT !.inv.error = error], FALSE)

\* catch (error) { ... await sendTelegramNotification(error text) ... }
catchBlock(ctx, error, ctorThrows) ==
    LET called == sendTelegramNotification(
                      [ctx EXCEPT !.inv.error = error,
                                  !.inv.errorText = errorNotificationOf[error],
                                  !.inv.errorNotifications = @ + 1], ctorThrows)
    IN  IF called.nf.botInstance = "bot"
        THEN [called EXCEPT !.inv.pc = "errorSend"]
        ELSE finallyBlock(called, FALSE)

\* await writeState(currentState)
callWriteState(ctx) ==
    [ctx EXCEPT !.inv.pc = "write", !.inv.writes = @ + 1,
                !.inv.written = ctx.inv.currentState]

\* the text of the change notification: the fixed header, then the escaped
\* summary
changeNotification(aiResult) ==
    [kind |-> "change", header |-> "*JSON Update Detected*",
     body |-> escapeMarkdownV2(aiResult.reportedChanges)]

\* the verdict ignored: every summary is sent
worthReportingAlways(aiResult) == TRUE

\* if (aiResult.isWorthToReport)
worthReporting(aiResult) == aiResult.isWorthToReport

\* no test of the fetched data at all
passesValidationAnything(data) == TRUE

\* the typeof test on the fetched data
passesValidation(data) == IsObjectType(data)

\* from the fetched data to the read of the last state
afterFetch(ctx, data, ctorThrows) ==
    LET got == [ctx EXCEPT !.inv.currentState = data]
    IN  IF ~passesValidation(data)
        THEN catchBlock(got, "validation", ctorThrows)
        ELSE [got EXCEPT !.inv.pc = "read", !.inv.reads = @ + 1]

\* the new state stored only when the change was reported
afterSummaryStoresReported(ctx, aiResult, ctorThrows) ==
    LET got == [ctx EXCEPT !.inv.aiResult = aiResult]
    IN  IF worthReporting(aiResult)
        THEN LET called == sendTelegramNotification(
                               [got EXCEPT !.inv.changeNotifications = @ + 1,
                                           !.inv.changeMessage = changeNotification(aiResult)],
                               ctorThrows)
             IN  IF called.nf.botInstance = "bot"
                 THEN [called EXCEPT !.inv.pc = "send"]
                 ELSE callWriteState(called)
        ELSE finallyBlock(got, FALSE)

\* the change notification sent without await: writeState is called while
\* bot.sendMessage is still pending
afterSummarySendNotAwaited(ctx, aiResult, ctorThrows) ==
    LET got == [ctx EXCEPT !.inv.aiResult = aiResult]
    IN  IF worthReporting(aiResult)
        THEN callWriteState(sendTelegramNotification(
                                [got EXCEPT !.inv.changeNotifications = @ + 1,
                                            !.inv.changeMessage = changeNotification(aiResult)],
                                ctorThrows))
        ELSE callWriteState(got)

\* writeState called before the change notification: the send is awaited
\* with the write already issued
afterSummaryWritesFirst(ctx, aiResult, ctorThrows) ==
    LET got == [ctx EXCEPT !.inv.aiResult = aiResult]
    IN  IF worthReporting(aiResult)
        THEN LET called == sendTelegramNotification(
                               [callWriteState(got) EXCEPT
                                    !.inv.changeNotifications = @ + 1,
                                    !.inv.changeMessage = changeNotification(aiResult)],
                               ctorThrows)
             IN  IF called.nf.botInstance = "bot"
                 THEN [called EXCEPT !.inv.pc = "send"]
                 ELSE called
        ELSE callWriteState(got)

\* from the summary to the notification and the write of the new state
afterSummary(ctx, aiResult, ctorThrows) ==
    LET got == [ctx EXCEPT !.inv.aiResult = aiResult]
    IN  IF worthReporting(aiResult)
        THEN LET called == sendTelegramNotification(
                               [got EXCEPT !.inv.changeNotifications = @ + 1,
                                           !.inv.changeMessage = changeNotification(aiResult)],
                               ctorThrows)
             IN  IF called.nf.botInstance = "bot"
                 THEN [called EXCEPT !.inv.pc = "send"]
                 ELSE callWriteState(called)
        ELSE callWriteState(got)

\* if (actualChanges): an array is always truthy
hasChangesTruthy(actualChanges) == TRUE

\* if (actualChanges.length > 0)
hasChanges(actualChanges) == Len(actualChanges) > 0

\* the else branch of the first-run test: compare, then the summary (changes)
\* or the end of the cycle (no changes)
afterCompare(ctx, ctorThrows) ==
    LET changes == compareJson(ctx.inv.lastState, ctx.inv.currentState)
        actualChanges == FilterChanged(changes)
        compared == [ctx EXCEPT !.inv.compares = @ + 1]
    IN  IF hasChanges(actualChanges)
        THEN IF summaryCallsProvider(actualChanges)
             THEN [compared EXCEPT !.inv.pc = "ai", !.inv.aiCalls = @ + 1]
             ELSE afterSummary(compared, defaultNoChangesResult, ctorThrows)
        ELSE finallyBlock(compared, FALSE)

\* a first run that only logs and stores nothing
afterReadFirstRunForgets(ctx, ctorThrows) ==
    LET got == [ctx EXCEPT !.inv.lastState = ctx.file, !.inv.readReturned = TRUE]
    IN  IF got.inv.lastState = Absent
        THEN finallyBlock(got, FALSE)
        ELSE afterCompare(got, ctorThrows)

\* from the last state to the write (first run) or to the comparison
afterRead(ctx, ctorThrows) ==
    LET got == [ctx EXCEPT !.inv.lastState = ctx.file, !.inv.readReturned = TRUE]
    IN  IF got.inv.lastState = Absent
        THEN callWriteState(got)
        ELSE afterCompare(got, ctorThrows)

\* from the end of the change notification to the write, or to the catch block
\* when the notifier threw
afterSend(ctx, outcome, ctorThrows) ==
    IF sendHandlerThrows(outcome)
    THEN catchBlock(ctx, "notifier", ctorThrows)
    ELSE callWriteState(ctx)

\* from the end of writeState to the end of the cycle; fs.writeFile has
\* replaced the file's content when it succeeds, and a failed writeState
\* leaves the file as it was (the store relies on the medium for that)
afterWrite(ctx, ok, ctorThrows) ==
    IF ok
    THEN finallyBlock([ctx EXCEPT !.file = ctx.inv.written], FALSE)
    ELSE catchBlock(ctx, "storage", ctorThrows)

\* from the end of the error notification to the end of the cycle
afterErrorSend(ctx, outcome) ==
    finallyBlock([ctx EXCEPT !.inv.errorNotificationFailed = sendHandlerThrows(outcome)],
                 errorNotificationEscapes(sendHandlerThrows(outcome)))


(***************************************************************************)
(* The actions.                                                            *)
(***************************************************************************)
Alive == processExit = "none" /\ shutdown \in {"none", "requested"}

Context(i) ==
    [inv |-> invocations[i], nf |-> notifier, guard |-> isJobRunning, file |-> stateFile]

\* an invocation whose promise rejects: main() is awaiting the startup one and
\* exits; a scheduler callback leaves it unhandled
ExitAfter(inv) ==
    IF inv.result = "rejected" /\ inv.source = "scheduler" THEN "cycle" ELSE processExit

Commit(i, ctx) ==
    /\ invocations' = [invocations EXCEPT ![i] = ctx.inv]
    /\ notifier' = ctx.nf
    /\ isJobRunning' = ctx.guard
    /\ stateFile' = ctx.file
    /\ processExit' = ExitAfter(ctx.inv)
    /\ UNCHANGED <<config, mainPc, shutdown, call, startup>>

\* the guard is held and the call fails instead of returning
skippedInvocationThrows(source) ==
    [NewInvocation(source) EXCEPT !.pc = "skipped", !.result = "rejected"]

\* the guard is held: console.log(...); return;
skippedInvocation(source) ==
    [NewInvocation(source) EXCEPT !.pc = "skipped", !.result = "resolved"]

\* a core with a timeout: a trigger that finds the guard held gives the
\* running cycle up and starts a new one
checkJsonUpdatesAbandons(source) ==
    LET earlier == [j \in 1..Len(invocations) |->
                       IF invocations[j].pc \in RunningPcs
                       THEN [invocations[j] EXCEPT !.pc = "done", !.result = "rejected"]
                       ELSE Retire(invocations[j])]
    IN  /\ invocations' = Append(earlier,
               [NewInvocation(source) EXCEPT !.pc = "fetch", !.fetches = 1])
        /\ isJobRunning' = TRUE

\* checkJsonUpdates() up to its first await: the guard test, the acquisition
\* and the call of fetchJsonData, which issues fetch(config.jsonUrl)
checkJsonUpdates(source) ==
    LET earlier == [j \in 1..Len(invocations) |-> Retire(invocations[j])]
    IN  IF guardBlocks(isJobRunning)
        THEN /\ invocations' = Append(earlier, skippedInvocation(source))
             /\ UNCHANGED isJobRunning
        ELSE /\ invocations' = Append(earlier,
                    [NewInvocation(source) EXCEPT !.pc = "fetch", !.fetches = 1])
             /\ isJobRunning' = TRUE

\* a startup notification that a failed send makes main() give up on: the
\* initial check is not reached
startupCatchGivesUp(outcome) == IF outcome = "resolved" THEN "callInitial" ELSE "exited"

\* try { await sendTelegramNotification(startupMessage); } catch (error) {...}:
\* where main() goes on once the call has settled, whatever its outcome
startupCatch(outcome) == "callInitial"

\* if (config.telegramNotifyOnStart)
notifyOnStart(cfg) == cfg.telegramNotifyOnStart

\* main() up to the initial check: the optional startup notification
MainStart ==
    /\ Alive
    /\ mainPc = "start"
    /\ \E ctorThrows \in BOOLEAN :
         IF notifyOnStart(config)
         THEN LET nf == getBotInstance(notifier, config, ctorThrows)
              IN  /\ notifier' = nf
                  /\ IF nf.botInstance = "bot"
                     THEN /\ mainPc' = "startupSend"
                          /\ startup' = [startup EXCEPT !.notifications = @ + 1,
                                                        !.sends = @ + 1]
                     ELSE /\ mainPc' = "callInitial"
                          /\ startup' = [startup EXCEPT !.notifications = @ + 1,
                                                        !.delivery = "skipped"]
         ELSE /\ mainPc' = "callInitial"
              /\ UNCHANGED <<notifier, startup>>
    /\ UNCHANGED <<config, processExit, isJobRunning, invocations, stateFile, shutdown, call>>

\* the startup notification's send completes; whatever it does, the try/catch
\* of main() goes on to the initial check
StartupSendDone ==
    /\ Alive
    /\ mainPc = "startupSend"
    /\ \E outcome \in SendOutcomes :
         /\ mainPc' = startupCatch(outcome)
         /\ startup' = [startup EXCEPT !.delivery = IF outcome = "resolved"
                                                    THEN "delivered" ELSE "failed"]
    /\ UNCHANGED <<config, processExit, isJobRunning, invocations, stateFile, notifier,
                   shutdown, call>>

\* await checkJsonUpdates(): the initial check on startup
MainInitialCheck ==
    /\ Alive
    /\ mainPc = "callInitial"
    /\ checkJsonUpdates("startup")
    /\ mainPc' = "awaitInitial"
    /\ UNCHANGED <<config, processExit, stateFile, notifier, shutdown, call, startup>>

\* the initial check called without await: main() goes on at once
initialCheckNotAwaited(inv) == TRUE

\* await checkJsonUpdates(): main() goes on when the promise of the initial
\* check has settled
initialCheckAwaited(inv) == inv.result # "pending"

\* the initial check has settled: main() registers the scheduled job.  For an
\* expression the scheduler does not accept scheduleJob returns null,
\* job.nextInvocation() throws, and main().catch exits the process; so would
\* a rejected initial check
MainSchedule ==
    /\ Alive
    /\ mainPc = "awaitInitial"
    /\ initialCheckAwaited(invocations[1])
    /\ IF invocations[1].result = "rejected"
       THEN mainPc' = "exited" /\ processExit' = "cycle"
       ELSE IF config.checkIntervalCron = "valid"
            THEN mainPc' = "scheduled" /\ UNCHANGED processExit
            ELSE mainPc' = "exited" /\ processExit' = "startup"
    /\ UNCHANGED <<config, isJobRunning, invocations, stateFile, notifier, shutdown, call, startup>>

\* the scheduled job fires: () => { checkJsonUpdates(); }.  A job that
\* gracefulShutdown has cancelled does not fire.
SchedulerTick ==
    /\ Alive
    /\ mainPc = "scheduled"
    /\ shutdown = "none"
    /\ Len(invocations) < MaxTriggers
    /\ checkJsonUpdates("scheduler")
    /\ UNCHANGED <<config, mainPc, processExit, stateFile, notifier, shutdown, call, startup>>

\* fetch(config.jsonUrl) settles: a transport error, a failure status, or a
\* success status, after which response.json() is awaited
FetchResponse(i) ==
    /\ Alive
    /\ invocations[i].pc = "fetch"
    /\ \E outcome \in {"transportError", "badStatus", "ok"}, ctorThrows \in BOOLEAN :
         IF outcome = "ok"
         THEN Commit(i, [Context(i) EXCEPT !.inv.pc = "json"])
         ELSE Commit(i, catchBlock(Context(i), "fetch", ctorThrows))

\* response.json() settles: the body does not parse, or it is some JSON value
FetchBody(i) ==
    /\ Alive
    /\ invocations[i].pc = "json"
    /\ \E ctorThrows \in BOOLEAN :
         \/ Commit(i, catchBlock(Context(i), "fetch", ctorThrows))
         \/ \E data \in FetchValues : Commit(i, afterFetch(Context(i), data, ctorThrows))

\* readLastState() settles: an I/O or parse failure, or the file's snapshot
\* (null when there is no file)
ReadDone(i) ==
    /\ Alive
    /\ invocations[i].pc = "read"
    /\ \E ctorThrows \in BOOLEAN :
         \/ Commit(i, catchBlock(Context(i), "storage", ctorThrows))
         \/ Commit(i, afterRead(Context(i), ctorThrows))

\* generateObject settles and generateChangeSummary resolves
SummaryDone(i) ==
    /\ Alive
    /\ invocations[i].pc = "ai"
    /\ \E o \in AiOutcomes, ctorThrows \in BOOLEAN :
         LET summary == summaryFromOutcome(o)
         IN  IF summary.settled = "rejected"
             THEN Commit(i, catchBlock(Context(i), "summarizer", ctorThrows))
             ELSE Commit(i, afterSummary(Context(i), summary.value, ctorThrows))

\* bot.sendMessage of the change notification settles
SendDone(i) ==
    /\ Alive
    /\ invocations[i].pc = "send"
    /\ \E outcome \in SendOutcomes, ctorThrows \in BOOLEAN :
         Commit(i, afterSend(Context(i), outcome, ctorThrows))

\* writeState settles
WriteDone(i) ==
    /\ Alive
    /\ invocations[i].pc = "write"
    /\ \E ok \in BOOLEAN, ctorThrows \in BOOLEAN :
         Commit(i, afterWrite(Context(i), ok, ctorThrows))

\* bot.sendMessage of the error notification settles
ErrorSendDone(i) ==
    /\ Alive
    /\ invocations[i].pc = "errorSend"
    /\ \E outcome \in SendOutcomes : Commit(i, afterErrorSend(Context(i), outcome))

\* SIGINT arrives.  Once main() has registered its handler (the statement
\* after scheduleJob), the handler calls schedule.gracefulShutdown(), which
\* cancels the job; before that the signal has its default effect and ends
\* the process.
Sigint ==
    /\ Alive
    /\ shutdown = "none"
    /\ shutdown' = IF mainPc = "scheduled" THEN "requested" ELSE "killed"
    /\ UNCHANGED <<config, mainPc, processExit, isJobRunning, invocations, stateFile,
                   notifier, call, startup>>

\* the promise of gracefulShutdown() resolves: .then(() => process.exit(0)).
\* The job's callback returns nothing, so the scheduler knows of no run it
\* could wait for.
ShutdownExit ==
    /\ Alive
    /\ shutdown = "requested"
    /\ shutdown' = "exited"
    /\ UNCHANGED <<config, mainPc, processExit, isJobRunning, invocations, stateFile,
                   notifier, call, startup>>

\* one awaited collaborator call of invocation i settles
Step(i) ==
    \/ FetchResponse(i)
    \/ FetchBody(i)
    \/ ReadDone(i)
    \/ SummaryDone(i)
    \/ SendDone(i)
    \/ WriteDone(i)
    \/ ErrorSendDone(i)

Next ==
    \/ MainStart
    \/ StartupSendDone
    \/ MainInitialCheck
    \/ MainSchedule
    \/ SchedulerTick
    \/ \E i \in 1..Len(invocations) : FetchResponse(i)
    \/ \E i \in 1..Len(invocations) : FetchBody(i)
    \/ \E i \in 1..Len(invocations) : ReadDone(i)
    \/ \E i \in 1..Len(invocations) : SummaryDone(i)
    \/ \E i \in 1..Len(invocations) : SendDone(i)
    \/ \E i \in 1..Len(invocations) : WriteDone(i)
    \/ \E i \in 1..Len(invocations) : ErrorSendDone(i)

Spec == Init /\ [][Next]_vars

\* every awaited collaborator call settles, and main() is not starved; the
\* scheduler is under no obligation to fire
FairSpec ==
    /\ Spec
    /\ WF_vars(MainStart)
    /\ WF_vars(StartupSendDone)
    /\ WF_vars(MainInitialCheck)
    /\ WF_vars(MainSchedule)
    /\ WF_vars(\E i \in 1..Len(invocations) : Step(i))

\* the program with the operator's shutdown signal
SignalNext ==
    \/ MainStart
    \/ StartupSendDone
    \/ MainInitialCheck
    \/ MainSchedule
    \/ SchedulerTick
    \/ \E i \in 1..Len(invocations) : FetchResponse(i)
    \/ \E i \in 1..Len(invocations) : FetchBody(i)
    \/ \E i \in 1..Len(invocations) : ReadDone(i)
    \/ \E i \in 1..Len(invocations) : SummaryDone(i)
    \/ \E i \in 1..Len(invocations) : SendDone(i)
    \/ \E i \in 1..Len(invocations) : WriteDone(i)
    \/ \E i \in 1..Len(invocations) : ErrorSendDone(i)
    \/ Sigint
    \/ ShutdownExit

SignalSpec == Init /\ [][SignalNext]_vars

(***************************************************************************)
(* generateChangeSummary called on its own, with any ChangeSet of up to     *)
(* MaxSegments segments: main() is not run.                                *)
(***************************************************************************)
\* a part of a diff: one line, added, removed or unchanged
\* the tokens of the line of a part: a number, and strings with which the
\* rendering of one added part has maxDiffLength characters, one more, and a
\* third more
SegmentTokens ==
    {"1", "\"" \o repeat("a", maxDiffLength - 35) \o "\"",
     "\"" \o repeat("a", maxDiffLength - 34) \o "\"",
     "\"" \o repeat("a", maxDiffLength + 1000) \o "\""}

Segments ==
    {Change(tag, <<Line(1, "a", tok, FALSE)>>) :
        tag \in {"added", "removed", "same"}, tok \in SegmentTokens}

\* the values of OPENAI_CUSTOM_PROMPT_CONTEXT: not set, and two criteria
CustomContexts == {"", "Only report changes to the name field.", " "}

ChangeSets == UNION {[1..n -> Segments] : n \in 0..MaxSegments}

\* the configuration of the module under call
CallConfig ==
    [telegramBotToken |-> "token", telegramChatId |-> "chat",
     telegramNotifyOnStart |-> FALSE, checkIntervalCron |-> "valid",
     openaiCustomPromptContext |-> ""]

SummarizerInit ==
    /\ \E customContext \in CustomContexts :
         config = [CallConfig EXCEPT !.openaiCustomPromptContext = customContext]
    /\ mainPc = "notRun"
    /\ processExit = "none"
    /\ isJobRunning = FALSE
    /\ invocations = <<>>
    /\ stateFile = Absent
    /\ notifier = NotifierInit
    /\ shutdown = "none"
    /\ startup = NoStartup
    /\ \E changes \in ChangeSets :
         call = [NoCall EXCEPT !.fn = "generateChangeSummary", !.pc = "called",
                               !.changes = changes]

\* generateChangeSummary(changes) up to its await: the short-circuit, or the
\* call of generateObject
SummaryCalled ==
    /\ call.fn = "generateChangeSummary"
    /\ call.pc = "called"
    /\ call' = IF summaryCallsProvider(call.changes)
               THEN [call EXCEPT !.pc = "provider", !.aiCalls = @ + 1,
                                 !.systemPrompt =
                                     systemPrompt(config.openaiCustomPromptContext),
                                 !.userPrompt =
                                     truncatedDiff(formatDiffForAI(
                                         FilterChanged(call.changes)))]
               ELSE [call EXCEPT !.pc = "returned", !.settled = "resolved",
                                 !.result = defaultNoChangesResult]
    /\ UNCHANGED <<config, mainPc, processExit, isJobRunning, invocations, stateFile,
                   notifier, shutdown, startup>>

\* generateObject settles and generateChangeSummary with it
SummaryProviderDone ==
    /\ call.fn = "generateChangeSummary"
    /\ call.pc = "provider"
    /\ \E o \in AiOutcomes :
         LET summary == summaryFromOutcome(o)
         IN  call' = [call EXCEPT !.pc = "returned", !.outcome = o,
                                  !.settled = summary.settled,
                                  !.result = summary.value]
    /\ UNCHANGED <<config, mainPc, processExit, isJobRunning, invocations, stateFile,
                   notifier, shutdown, startup>>

SummarizerNext ==
    \/ SummaryCalled
    \/ SummaryProviderDone

SummarizerSpec == SummarizerInit /\ [][SummarizerNext]_vars

(***************************************************************************)
(* sendTelegramNotification called on its own, up to MaxNotifyCalls times  *)
(* in the life of the module: main() is not run.                           *)
(***************************************************************************)
Messages == {"m1", "m2", "m3"}

\* the calls made so far, the messages sent and the messages not delivered;
\* of the current call its message, its log and how it ended
NoNotifyCall ==
    [fn |-> "sendTelegramNotification", pc |-> "idle", calls |-> 0, message |-> "",
     settled |-> "pending", delivered |-> FALSE, log |-> <<>>, sends |-> 0,
     undelivered |-> 0]

NotifierCallInit ==
    /\ config \in {c \in Configs : ~c.telegramNotifyOnStart /\ c.checkIntervalCron = "valid"}
    /\ mainPc = "notRun"
    /\ processExit = "none"
    /\ isJobRunning = FALSE
    /\ invocations = <<>>
    /\ stateFile = Absent
    /\ notifier = NotifierInit
    /\ shutdown = "none"
    /\ startup = NoStartup
    /\ call = NoNotifyCall

\* sendTelegramNotification(message) up to its await, or to its return when
\* there is no client
NotifyCalled ==
    /\ call.fn = "sendTelegramNotification"
    /\ call.pc \in {"idle", "returned"}
    /\ call.calls < MaxNotifyCalls
    /\ \E message \in Messages, ctorThrows \in BOOLEAN :
         LET nf == getBotInstance(notifier, config, ctorThrows)
             made == [call EXCEPT !.calls = @ + 1, !.message = message,
                                  !.settled = "pending", !.delivered = FALSE]
         IN  /\ notifier' = nf
             /\ call' = IF nf.botInstance = "bot"
                        THEN [made EXCEPT !.pc = "sending", !.log = sendingLog,
                                          !.sends = @ + 1]
                        ELSE [made EXCEPT !.pc = "returned", !.settled = "resolved",
                                          !.log = skipLog(nf, message),
                                          !.undelivered = @ + 1]
    /\ UNCHANGED <<config, mainPc, processExit, isJobRunning, invocations, stateFile, shutdown, startup>>

\* bot.sendMessage settles and sendTelegramNotification with it
NotifySendDone ==
    /\ call.fn = "sendTelegramNotification"
    /\ call.pc = "sending"
    /\ \E outcome \in SendOutcomes :
         /\ call' = [call EXCEPT !.pc = "returned",
                                 !.settled = IF sendHandlerThrows(outcome)
                                             THEN "rejected" ELSE "resolved",
                                 !.delivered = (outcome = "resolved"),
                                 !.undelivered = IF outcome = "resolved" THEN @ ELSE @ + 1,
                                 !.log = @ \o settledLog(outcome, call.message)]
         /\ notifier' = notifierAfterSend(notifier, outcome)
    /\ UNCHANGED <<config, mainPc, processExit, isJobRunning, invocations, stateFile,
                   shutdown, startup>>

NotifierNext ==
    \/ NotifyCalled
    \/ NotifySendDone

NotifierSpec == NotifierCallInit /\ [][NotifierNext]_vars

(***************************************************************************)
(* escapeMarkdownV2 called on its own, and once more on its result, with   *)
(* any text of up to MaxTextLen chunks.                                    *)
(***************************************************************************)
\* a plain run, two reserved characters and the backslash
TextChunks == {"a", "!", "_", Backslash}

Texts == UNION {[1..n -> TextChunks] : n \in 0..MaxTextLen}

EscapeCallInit ==
    /\ config = CallConfig
    /\ mainPc = "notRun"
    /\ processExit = "none"
    /\ isJobRunning = FALSE
    /\ invocations = <<>>
    /\ stateFile = Absent
    /\ notifier = NotifierInit
    /\ shutdown = "none"
    /\ startup = NoStartup
    /\ \E text \in Texts :
         call = [fn |-> "escapeMarkdownV2", pc |-> "called", text |-> text,
                 once |-> <<>>, twice |-> <<>>]

\* escapeMarkdownV2(text) returns
EscapeReturned ==
    /\ call.fn = "escapeMarkdownV2"
    /\ call.pc = "called"
    /\ call' = [call EXCEPT !.pc = "returned", !.once = escapeMarkdownV2(call.text)]
    /\ UNCHANGED <<config, mainPc, processExit, isJobRunning, invocations, stateFile,
                   notifier, shutdown, startup>>

\* escapeMarkdownV2 is called on the text it returned
EscapedAgain ==
    /\ call.fn = "escapeMarkdownV2"
    /\ call.pc = "returned"
    /\ call' = [call EXCEPT !.pc = "returnedAgain", !.twice = escapeMarkdownV2(call.once)]
    /\ UNCHANGED <<config, mainPc, processExit, isJobRunning, invocations, stateFile,
                   notifier, shutdown, startup>>

EscapeNext ==
    \/ EscapeReturned
    \/ EscapedAgain

EscapeSpec == EscapeCallInit /\ [][EscapeNext]_vars

(***************************************************************************)
(* readLastState and writeState called on their own, up to MaxStoreCalls   *)
(* calls in a row, on a file system where the directory and the file may   *)
(* be missing and every fs call may fail.                                  *)
(***************************************************************************)
ObjS1 == JObj(<< <<"a", JStr("1")>> >>)

\* the states handed to writeState
StoreStates == {ObjA1, ObjS1, ObjAB, ObjBA, ArrOne, JObj(<<>>)}

NoFile == [exists |-> FALSE, text |-> <<>>]

FileOf(text) == [exists |-> TRUE, text |-> text]

\* of the file system the directory and the file; of the current call its
\* operation, its argument, the failure of an fs call and how it settled,
\* how fs.access ended and how often fs.mkdir and fs.readFile or
\* fs.writeFile were called; lastWritten is the argument of the last
\* writeState that succeeded
NoStoreCall ==
    [fn |-> "storage", op |-> "none", pc |-> "idle", calls |-> 0, state |-> Absent,
     dir |-> FALSE, file |-> NoFile, failure |-> "none", settled |-> "pending",
     result |-> Absent, thrown |-> "none", lastWritten |-> Absent, mkdirs |-> 0,
     access |-> "none", fileCalls |-> 0]

StoreCallInit ==
    /\ config = CallConfig
    /\ mainPc = "notRun"
    /\ processExit = "none"
    /\ isJobRunning = FALSE
    /\ invocations = <<>>
    /\ stateFile = Absent
    /\ notifier = NotifierInit
    /\ shutdown = "none"
    /\ startup = NoStartup
    /\ \E dir \in BOOLEAN, file \in {NoFile, FileOf(serializeState(ObjA1)), FileOf(Unparseable)} :
         /\ file.exists => dir
         /\ call = [NoStoreCall EXCEPT !.dir = dir, !.file = file]

\* the call settles
StoreSettled(c, outcome) ==
    [c EXCEPT !.pc = "returned", !.settled = outcome.settled, !.result = outcome.result,
              !.thrown = outcome.thrown]

\* an fs call of the current operation has failed: the operation's catch block
StoreFailed(c, error) ==
    StoreSettled([c EXCEPT !.failure = error],
                 IF c.op = "read" THEN readCatch(error) ELSE writeCatch(error))

\* after ensureStateDirectoryExists: fs.readFile or fs.writeFile is called
StoreFileCall(c) ==
    [c EXCEPT !.pc = IF c.op = "read" THEN "readFile" ELSE "writeFile",
              !.fileCalls = @ + 1]

\* a directory check that answers every failure by creating the directory
accessCatchCreatesAlways(code) == "mkdir"

\* the catch block of ensureStateDirectoryExists: fs.mkdir for ENOENT, the
\* error thrown on for anything else
accessCatch(code) == IF code = "ENOENT" THEN "mkdir" ELSE "throw"

\* readLastState() or writeState(state) up to its first await, fs.access(dir)
\* in ensureStateDirectoryExists
StoreCalled ==
    /\ call.fn = "storage"
    /\ call.pc \in {"idle", "returned"}
    /\ call.calls < MaxStoreCalls
    /\ \/ call' = [call EXCEPT !.op = "read", !.pc = "access", !.calls = @ + 1,
                                !.state = Absent, !.failure = "none", !.settled = "pending",
                                !.result = Absent, !.thrown = "none", !.mkdirs = 0,
                                !.access = "none", !.fileCalls = 0]
       \/ \E state \in StoreStates :
            call' = [call EXCEPT !.op = "write", !.pc = "access", !.calls = @ + 1,
                                 !.state = state, !.failure = "none", !.settled = "pending",
                                 !.result = Absent, !.thrown = "none", !.mkdirs = 0,
                                !.access = "none", !.fileCalls = 0]
    /\ UNCHANGED <<config, mainPc, processExit, isJobRunning, invocations, stateFile,
                   notifier, shutdown, startup>>

\* fs.access(dir) settles: the directory is there, it is missing (ENOENT,
\* then fs.mkdir is called), or the call fails otherwise and the error is
\* thrown on
StoreAccessDone ==
    /\ call.fn = "storage"
    /\ call.pc = "access"
    /\ \E code \in (IF call.dir THEN {"ok", "EACCES"} ELSE {"ENOENT", "EACCES"}) :
         LET checked == [call EXCEPT !.access = code]
         IN  call' = CASE code = "ok" -> StoreFileCall(checked)
                       [] accessCatch(code) = "mkdir" ->
                            [checked EXCEPT !.pc = "mkdir", !.mkdirs = @ + 1]
                       [] OTHER -> StoreFailed(checked, code)
    /\ UNCHANGED <<config, mainPc, processExit, isJobRunning, invocations, stateFile,
                   notifier, shutdown, startup>>

\* fs.mkdir(dir, { recursive: true }) settles
StoreMkdirDone ==
    /\ call.fn = "storage"
    /\ call.pc = "mkdir"
    /\ \E code \in {"ok", "EACCES", "ENOENT"} :
         call' = IF code = "ok"
                 THEN StoreFileCall([call EXCEPT !.dir = TRUE])
                 ELSE StoreFailed(call, code)
    /\ UNCHANGED <<config, mainPc, processExit, isJobRunning, invocations, stateFile,
                   notifier, shutdown, startup>>

\* fs.readFile settles, and JSON.parse after it
StoreReadFileDone ==
    /\ call.fn = "storage"
    /\ call.pc = "readFile"
    /\ \E code \in (IF call.file.exists THEN {"ok", "EACCES"} ELSE {"ENOENT", "EACCES"}) :
         call' = IF code # "ok" THEN StoreFailed(call, code)
                 ELSE IF call.file.text = Unparseable THEN StoreFailed(call, "SyntaxError")
                 ELSE StoreSettled(call, StoreResolved(parseState(call.file.text)))
    /\ UNCHANGED <<config, mainPc, processExit, isJobRunning, invocations, stateFile,
                   notifier, shutdown, startup>>

\* fs.writeFile settles: the file holds the new content, or the call failed
\* and the file is as it was
StoreWriteFileDone ==
    /\ call.fn = "storage"
    /\ call.pc = "writeFile"
    /\ \E code \in {"ok", "EACCES"} :
         call' = IF code = "ok"
                 THEN StoreSettled([call EXCEPT !.file = FileOf(serializeState(call.state)),
                                                !.lastWritten = call.state],
                                   StoreResolved(Absent))
                 ELSE StoreFailed(call, code)
    /\ UNCHANGED <<config, mainPc, processExit, isJobRunning, invocations, stateFile,
                   notifier, shutdown, startup>>

StoreNext ==
    \/ StoreCalled
    \/ StoreAccessDone
    \/ StoreMkdirDone
    \/ StoreReadFileDone
    \/ StoreWriteFileDone

StoreSpec == StoreCallInit /\ [][StoreNext]_vars

(***************************************************************************)
(* compareJson called on its own with any two states out of CompareStates. *)
(***************************************************************************)
NestedAC == JObj(<< <<"a", JNum(1)>>, <<"c", JNum(2)>> >>)

NestedCA == JObj(<< <<"c", JNum(2)>>, <<"a", JNum(1)>> >>)

\* the values a member may have: numbers, a string that reads like a number,
\* and an object in two member orders
MemberValues == {JNum(1), JNum(2), JStr("1"), NestedAC, NestedCA}

\* the objects with a member a, a member b, or both in either order, the
\* empty object and an array
CompareStates ==
    {JObj(<<>>), ArrOne}
    \cup {JObj(<< <<k, v>> >>) : k \in {"a", "b"}, v \in MemberValues}
    \cup {JObj(<< <<"a", v>>, <<"b", w>> >>) : v \in MemberValues, w \in MemberValues}
    \cup {JObj(<< <<"b", w>>, <<"a", v>> >>) : v \in MemberValues, w \in MemberValues}

CompareCallInit ==
    /\ config = CallConfig
    /\ mainPc = "notRun"
    /\ processExit = "none"
    /\ isJobRunning = FALSE
    /\ invocations = <<>>
    /\ stateFile = Absent
    /\ notifier = NotifierInit
    /\ shutdown = "none"
    /\ startup = NoStartup
    /\ \E oldState \in CompareStates, newState \in CompareStates :
         call = [fn |-> "compareJson", pc |-> "called", oldState |-> oldState,
                 newState |-> newState, result |-> NullChanges]

\* compareJson(oldState, newState) returns
CompareReturned ==
    /\ call.fn = "compareJson"
    /\ call.pc = "called"
    /\ call' = [call EXCEPT !.pc = "returned",
                            !.result = compareJson(call.oldState, call.newState)]
    /\ UNCHANGED <<config, mainPc, processExit, isJobRunning, invocations, stateFile,
                   notifier, shutdown, startup>>

CompareNext == CompareReturned

CompareSpec == CompareCallInit /\ [][CompareNext]_vars

(***************************************************************************)
(* fetchJsonData called on its own, up to MaxFetchCalls times in a row.    *)
(***************************************************************************)
\* the status codes of the responses
Statuses == {200, 201, 206, 404, 500, 503}

\* a response body that is not JSON
NotJson == [t |-> "notJson", n |-> 0, s |-> "", items |-> <<>>, kv |-> <<>>]

\* of the current call its transport attempts, what the transport and the
\* body gave, and how it settled; transports counts the attempts of all calls
NoFetchCall ==
    [fn |-> "fetchJsonData", pc |-> "idle", calls |-> 0, attempts |-> 0, transports |-> 0,
     transport |-> "none", status |-> 0, body |-> Absent,
     settled |-> "pending", result |-> Absent, thrown |-> "none"]

FetcherCallInit ==
    /\ config = CallConfig
    /\ mainPc = "notRun"
    /\ processExit = "none"
    /\ isJobRunning = FALSE
    /\ invocations = <<>>
    /\ stateFile = Absent
    /\ notifier = NotifierInit
    /\ shutdown = "none"
    /\ startup = NoStartup
    /\ call = NoFetchCall

FetcherSettled(c, outcome) ==
    [c EXCEPT !.pc = "returned", !.settled = outcome.settled, !.result = outcome.result,
              !.thrown = outcome.thrown]

\* fetchJsonData() up to its first await: fetch(config.jsonUrl) is issued
FetcherCalled ==
    /\ call.fn = "fetchJsonData"
    /\ call.pc \in {"idle", "returned"}
    /\ call.calls < MaxFetchCalls
    /\ call' = [NoFetchCall EXCEPT !.pc = "fetch", !.calls = call.calls + 1,
                                   !.attempts = 1, !.transports = call.transports + 1]
    /\ UNCHANGED <<config, mainPc, processExit, isJobRunning, invocations, stateFile,
                   notifier, shutdown, startup>>

\* fetch settles: it rejects, or there is a response with a status; for a
\* success status response.json() is awaited
FetcherResponded ==
    /\ call.fn = "fetchJsonData"
    /\ call.pc = "fetch"
    /\ \/ call' = FetcherSettled([call EXCEPT !.transport = "error"],
                                  fetcherCatch("transport"))
       \/ \E status \in Statuses :
            LET got == [call EXCEPT !.transport = "response", !.status = status]
            IN  call' = IF responseOk(status)
                        THEN [got EXCEPT !.pc = "json"]
                        ELSE FetcherSettled(got, fetcherCatch("status"))
    /\ UNCHANGED <<config, mainPc, processExit, isJobRunning, invocations, stateFile,
                   notifier, shutdown, startup>>

\* response.json() settles: the body is some JSON value, or it does not parse
FetcherBodyRead ==
    /\ call.fn = "fetchJsonData"
    /\ call.pc = "json"
    /\ \E body \in FetchValues \cup {NotJson} :
         LET got == [call EXCEPT !.body = body]
         IN  call' = IF body = NotJson
                     THEN FetcherSettled(got, fetcherCatch("parse"))
                     ELSE FetcherSettled(got, FetchResolved(body))
    /\ UNCHANGED <<config, mainPc, processExit, isJobRunning, invocations, stateFile,
                   notifier, shutdown, startup>>

FetcherNext ==
    \/ FetcherCalled
    \/ FetcherResponded
    \/ FetcherBodyRead

FetcherSpec == FetcherCallInit /\ [][FetcherNext]_vars

(***************************************************************************)
(* Vocabulary of the properties.                                           *)
(***************************************************************************)
Ids == 1..Len(invocations)

Running(i) == invocations[i].pc \in RunningPcs

\* the cycle of invocation i has ended and its locals are still observed
Finished(i) == invocations[i].pc = "done"

\* the summarizer has returned a verdict to invocation i
HasVerdict(i) == invocations[i].aiResult # NoSummary

\* invocation i asked nothing of any collaborator
NoCollaboratorCall(i) ==
    LET inv == invocations[i]
    IN  /\ inv.fetches = 0 /\ inv.reads = 0 /\ inv.compares = 0 /\ inv.aiCalls = 0
        /\ inv.changeNotifications = 0 /\ inv.errorNotifications = 0
        /\ inv.sends = 0 /\ inv.writes = 0

\* the cycle of invocation i found no snapshot: readLastState returned null
FirstRun(i) ==
    /\ invocations[i].readReturned
    /\ invocations[i].lastState = Absent

\* two states that differ at most in the order of their members
CanonicallyEqual(x, y) == canonicalize(x) = canonicalize(y)

\* the cycle of invocation i fetched what the snapshot already holds
NoChange(i) ==
    /\ invocations[i].readReturned
    /\ invocations[i].lastState # Absent
    /\ CanonicallyEqual(invocations[i].lastState, invocations[i].currentState)

\* the cycle of invocation i failed in its fetch, its validation or its read
EarlyFailure(i) ==
    \/ invocations[i].error \in {"fetch", "validation"}
    \/ invocations[i].error = "storage" /\ ~invocations[i].readReturned

\* the step appends an invocation: checkJsonUpdates has been called
Triggered == Len(invocations') = Len(invocations) + 1

\* the fetched data of invocation i passed the validation
ValidFetch(i) == IsObjectType(invocations[i].currentState)

\* the collaborator operations an invocation has issued so far
Issued(inv) == inv.fetches + inv.reads + inv.aiCalls + inv.sends + inv.writes

\* the collaborator operations pending in the process: the one each running
\* cycle awaits, and the send of the startup notification
InFlight ==
    Cardinality({i \in Ids : Running(i)}) + (IF mainPc = "startupSend" THEN 1 ELSE 0)

\* the process has ended on the shutdown signal
ExitedOnSignal == shutdown \in {"exited", "killed"}

\* generateChangeSummary, called on its own, has returned or thrown
SummaryReturned == call.fn = "generateChangeSummary" /\ call.pc = "returned"

\* the ChangeSet of the call has a segment that is added or removed
EffectiveChanges == \E k \in 1..Len(call.changes) : call.changes[k].added \/ call.changes[k].removed

\* the state of the messaging client
NotifierState ==
    IF ~notifier.isBotInitialized THEN "Uninitialized"
    ELSE IF notifier.botInstance = "bot" THEN "Ready"
    ELSE IF notifier.botInitializationError THEN "FailedInit"
    ELSE "Disabled"

\* the bot token or the chat id is missing
CredentialsAbsent == config.telegramBotToken = "" \/ config.telegramChatId = ""

\* sendTelegramNotification, called on its own, has returned or thrown
NotifyReturned == call.fn = "sendTelegramNotification" /\ call.pc = "returned"

\* the log of the current call holds the text of its message
MessageLogged == \E k \in 1..Len(call.log) : call.log[k].message = call.message

\* the character at position i of a text is preceded by an unescaped
\* backslash: a backslash that no backslash before it escapes
RECURSIVE EscapedAt(_, _)
EscapedAt(text, i) ==
    /\ i > 1
    /\ text[i - 1] = Backslash
    /\ ~EscapedAt(text, i - 1)

\* the escaping as the claim words it
RECURSIVE ClaimedEscapeFrom(_, _)
ClaimedEscapeFrom(text, i) ==
    IF i > Len(text) THEN <<>>
    ELSE (IF text[i] \in Reserved /\ ~EscapedAt(text, i)
          THEN <<Backslash, text[i]>>
          ELSE <<text[i]>>) \o ClaimedEscapeFrom(text, i + 1)

\* every reserved character of a text has a backslash in front
AllReservedPreceded(text) ==
    \A i \in 1..Len(text) : text[i] \in Reserved => (i > 1 /\ text[i - 1] = Backslash)

\* readLastState or writeState, called on its own, has returned or thrown
StoreReturned(op) == call.fn = "storage" /\ call.pc = "returned" /\ call.op = op

\* two JSON values that are equal up to the order of the members of their
\* objects, at every depth
RECURSIVE SameUpToKeyOrder(_, _)
SameUpToKeyOrder(x, y) ==
    /\ x.t = y.t
    /\ CASE x.t = "obj" ->
             /\ Len(x.kv) = Len(y.kv)
             /\ \A i \in 1..Len(x.kv) : \E j \in 1..Len(y.kv) :
                    /\ x.kv[i][1] = y.kv[j][1]
                    /\ SameUpToKeyOrder(x.kv[i][2], y.kv[j][2])
         [] x.t = "arr" ->
             /\ Len(x.items) = Len(y.items)
             /\ \A i \in 1..Len(x.items) : SameUpToKeyOrder(x.items[i], y.items[i])
         [] OTHER -> x = y

\* compareJson, called on its own, has returned
CompareDone == call.fn = "compareJson" /\ call.pc = "returned"

\* fetchJsonData, called on its own, has returned or thrown
FetcherReturned == call.fn = "fetchJsonData" /\ call.pc = "returned"

\* a text holds a chunk
Contains(text, chunk) == \E k \in 1..Len(text) : text[k] = chunk

(***************************************************************************)
(* C1  Single-flight guard: in every reachable state at most one cycle of  *)
(* checkJsonUpdates is executing, and isJobRunning is true exactly when    *)
(* one is.                                                                 *)
(***************************************************************************)
C1_SingleFlight ==
    /\ Cardinality({i \in Ids : Running(i)}) <= 1
    /\ isJobRunning <=> (\E i \in Ids : Running(i))

\* a scheduler callback has arrived while a cycle is suspended on a collaborator
C1_Witness ==
    \E i, j \in Ids : i < j /\ Running(i) /\ invocations[i].pc = "ai"
                      /\ invocations[j].pc = "skipped" /\ isJobRunning

(***************************************************************************)
(* C2  A trigger that arrives while a cycle is running is dropped: the     *)
(* call returns at once without an error, it asks nothing of any           *)
(* collaborator then or later (a skipped invocation never runs), and it    *)
(* leaves the guard, the state file, the notifier and the running cycle    *)
(* as they were.                                                           *)
(***************************************************************************)
\* C2, the state part: a skipped invocation has resolved and called nothing
C2_SkippedIsInert ==
    \A i \in Ids : invocations[i].pc = "skipped" =>
        /\ invocations[i].result = "resolved"
        /\ NoCollaboratorCall(i)

\* C2, the step of the dropped trigger
C2_SkipStep ==
    (Triggered /\ isJobRunning) =>
        /\ invocations'[Len(invocations')].pc = "skipped"
        /\ isJobRunning' = isJobRunning
        /\ stateFile' = stateFile
        /\ notifier' = notifier
        /\ \A i \in Ids : Running(i) => invocations'[i] = invocations[i]

\* C2, no catch-up run: a skipped invocation never moves again
C2_NoCatchUp ==
    \A i \in Ids : invocations[i].pc = "skipped" => invocations'[i] = invocations[i]

\* C2: a trigger that arrives while a cycle is running is dropped, without an
\* error, a collaborator call or a later catch-up run
C2_TriggerWhileRunningDropped ==
    /\ []C2_SkippedIsInert
    /\ [][C2_SkipStep]_vars
    /\ [][C2_NoCatchUp]_vars

\* a trigger was dropped, the cycle it met has ended, and a later trigger runs
C2_Witness ==
    \E i, j \in Ids : i < j /\ invocations[i].pc = "skipped" /\ Running(j)

(***************************************************************************)
(* C3  Every cycle that entered Running ends with the guard released, on   *)
(* every exit path, provided every awaited collaborator call settles; and  *)
(* a trigger that finds the guard released starts a new cycle.             *)
(***************************************************************************)
\* C3, not blocked: a trigger that finds the guard free starts a cycle
C3_NextTriggerRuns ==
    (Triggered /\ ~isJobRunning) =>
        /\ invocations'[Len(invocations')].pc = "fetch"
        /\ isJobRunning'

\* C3, every exit path: the step that ends a cycle releases the guard
C3_EndsReleased ==
    \A i \in Ids : (Running(i) /\ ~Running(i)') =>
        /\ invocations'[i].pc = "done"
        /\ ~isJobRunning'

\* C3: every cycle that entered Running eventually ends with the guard
\* released, and the next trigger then starts a new cycle
C3_GuardReleased ==
    /\ \A i \in 1..MaxTriggers :
         (i \in Ids /\ Running(i)) ~> (i \in Ids /\ ~Running(i) /\ ~isJobRunning)
    /\ isJobRunning ~> ~isJobRunning
    /\ [][C3_EndsReleased]_vars
    /\ [][C3_NextTriggerRuns]_vars

\* a cycle left through the catch block, its error notification failed too,
\* the guard is free again, and this was not the first cycle
C3_Witness ==
    \E i \in Ids : /\ i > 1
                   /\ Finished(i)
                   /\ invocations[i].error = "storage"
                   /\ invocations[i].errorNotificationFailed
                   /\ ~isJobRunning


(***************************************************************************)
(* C4  First run, as claimed: in a cycle whose fetch gave a valid state    *)
(* and whose readLastState returned null, the state is written exactly     *)
(* once, with the fetched state, and the comparer, the summarizer and the  *)
(* notifier are never invoked.                                             *)
(***************************************************************************)
C4_FirstRunAsClaimed ==
    \A i \in Ids : (Finished(i) /\ FirstRun(i)) =>
        /\ invocations[i].writes = 1
        /\ invocations[i].written = invocations[i].currentState
        /\ invocations[i].compares = 0
        /\ invocations[i].aiCalls = 0
        /\ invocations[i].changeNotifications = 0
        /\ invocations[i].errorNotifications = 0

(***************************************************************************)
(* C4  First run, amended: in such a cycle writeState is called exactly    *)
(* once, with the fetched state; the comparer and the summarizer are never *)
(* invoked and no change notification is sent; the notifier is invoked     *)
(* only when that write fails, once, for the error notification; and a     *)
(* write that succeeds leaves the fetched state in the state file.         *)
(***************************************************************************)
C4_FirstRun ==
    \A i \in Ids : (Finished(i) /\ FirstRun(i)) =>
        /\ invocations[i].writes = 1
        /\ invocations[i].written = invocations[i].currentState
        /\ invocations[i].compares = 0
        /\ invocations[i].aiCalls = 0
        /\ invocations[i].changeNotifications = 0
        /\ IF invocations[i].error = "none"
           THEN /\ invocations[i].errorNotifications = 0
                /\ invocations[i].sends = 0
                /\ stateFile = invocations[i].currentState
           ELSE /\ invocations[i].error = "storage"
                /\ invocations[i].errorNotifications = 1
                /\ stateFile = Absent

\* the first run of the scenario: no snapshot, the fetch returns {"a":1}
C4_Witness ==
    \E i \in Ids : /\ Finished(i) /\ FirstRun(i)
                   /\ invocations[i].currentState = ObjA1
                   /\ invocations[i].error = "none"
                   /\ stateFile = ObjA1

(***************************************************************************)
(* C5  No-change cycle: when a prior snapshot exists and the fetched state *)
(* has the same canonical serialization (equal up to key order), the cycle *)
(* writes nothing, calls neither the summarizer nor the notifier, and the  *)
(* persisted snapshot is left as it was.                                   *)
(***************************************************************************)
C5_NoChangeCycle ==
    \A i \in Ids : (Finished(i) /\ NoChange(i)) =>
        /\ invocations[i].writes = 0
        /\ invocations[i].aiCalls = 0
        /\ invocations[i].changeNotifications = 0
        /\ invocations[i].errorNotifications = 0
        /\ invocations[i].sends = 0
        /\ invocations[i].error = "none"
        /\ stateFile = invocations[i].lastState

\* the fetched state is the snapshot with its members in another order
C5_Witness ==
    \E i \in Ids : /\ Finished(i) /\ NoChange(i)
                   /\ invocations[i].lastState = ObjBA
                   /\ invocations[i].currentState = ObjAB

(***************************************************************************)
(* C6  In a cycle with changes, the change notification is handed to the   *)
(* notifier if and only if the summarizer's verdict isWorthToReport is     *)
(* true, and its text is the fixed header followed by escapeMarkdownV2 of  *)
(* reportedChanges.  A cycle without a verdict hands over none.            *)
(***************************************************************************)
C6_NotifyIffWorth ==
    \A i \in Ids :
        IF HasVerdict(i)
        THEN /\ invocations[i].changeNotifications
                  = (IF invocations[i].aiResult.isWorthToReport THEN 1 ELSE 0)
             /\ invocations[i].aiResult.isWorthToReport =>
                  /\ invocations[i].changeMessage.kind = "change"
                  /\ invocations[i].changeMessage.header = "*JSON Update Detected*"
                  /\ invocations[i].changeMessage.body
                       = escapeMarkdownV2(invocations[i].aiResult.reportedChanges)
        ELSE /\ invocations[i].changeNotifications = 0
             /\ invocations[i].changeMessage = NoMessage

\* a reported change whose summary holds a reserved character
C6_Witness ==
    \E i \in Ids : /\ Finished(i) /\ HasVerdict(i)
                   /\ invocations[i].aiResult.isWorthToReport
                   /\ invocations[i].aiResult.reportedChanges = <<"a", "!">>
                   /\ invocations[i].changeMessage.body = <<"a", Backslash, "!">>
                   /\ invocations[i].sends = 1

(***************************************************************************)
(* C7  In a cycle with changes, the fetched state is written to the state  *)
(* store whatever the verdict (true, false or a degraded result).          *)
(***************************************************************************)
C7_WrittenWhateverVerdict ==
    \A i \in Ids : (Finished(i) /\ HasVerdict(i)) =>
        /\ invocations[i].writes = 1
        /\ invocations[i].written = invocations[i].currentState

(***************************************************************************)
(* C8  When the fetch fails, the payload fails validation or readLastState *)
(* fails, the cycle writes nothing, calls no summarizer and sends no       *)
(* change notification; one error notification is attempted and the guard  *)
(* is released.  So writeState is called, and the state file changed, only *)
(* by a cycle whose own fetch, validation and read succeeded.              *)
(***************************************************************************)
\* C8, the state part: an early failure is contained, and only a cycle whose
\* fetch, validation and read succeeded calls writeState
C8_Contained ==
    /\ \A i \in Ids : EarlyFailure(i) =>
         /\ invocations[i].pc \in {"errorSend", "done"}
         /\ invocations[i].writes = 0
         /\ invocations[i].aiCalls = 0
         /\ invocations[i].changeNotifications = 0
         /\ invocations[i].errorNotifications = 1
         /\ Finished(i) => ~isJobRunning
    /\ \A i \in Ids : invocations[i].writes > 0 =>
         /\ invocations[i].fetches = 1
         /\ IsObjectType(invocations[i].currentState)
         /\ invocations[i].readReturned

\* C8, the step part: the state file changes only by the write of such a cycle
C8_OnlyGoodCyclesWrite ==
    stateFile' # stateFile =>
        \E i \in Ids : /\ invocations[i].pc = "write"
                       /\ invocations[i].readReturned
                       /\ IsObjectType(invocations[i].currentState)
                       /\ stateFile' = invocations[i].currentState

\* C8: a failed fetch, validation or read leaves no write, no summary and no
\* change notification, attempts one error notification and frees the guard
C8_EarlyFailureContained == []C8_Contained /\ [][C8_OnlyGoodCyclesWrite]_vars

\* a cycle whose read of the state file failed has ended
C8_Witness ==
    \E i \in Ids : /\ Finished(i)
                   /\ invocations[i].error = "storage"
                   /\ ~invocations[i].readReturned
                   /\ invocations[i].errorNotifications = 1
                   /\ invocations[i].sends = 1

(***************************************************************************)
(* C9  Payload validation: every fetched JSON value that is not a JSON     *)
(* object (a string, a number, a boolean, null or an array) takes the      *)
(* cycle to the error path: nothing is read, nothing is written and no     *)
(* change notification is sent.                                            *)
(***************************************************************************)
C9_NonObjectRejected ==
    \A i \in Ids :
        (invocations[i].currentState # Absent /\ invocations[i].currentState.t # "obj") =>
            /\ invocations[i].error = "validation"
            /\ invocations[i].reads = 0
            /\ invocations[i].writes = 0
            /\ invocations[i].changeNotifications = 0

(***************************************************************************)
(* C10  Failure containment: whatever the collaborators do (the fetch, the *)
(* read, the summarizer, the sends and the write succeeding or failing,    *)
(* the error notification failing too), no call of checkJsonUpdates        *)
(* rejects, and the process exits only when the startup sequence fails.    *)
(***************************************************************************)
C10_NeverRejects ==
    /\ \A i \in Ids : invocations[i].result # "rejected"
    /\ processExit \in {"none", "startup"}
    /\ processExit = "startup" => mainPc = "exited" /\ config.checkIntervalCron = "invalid"

\* a scheduled cycle failed and the notifier threw on its error notification
C10_Witness ==
    \E i \in Ids : /\ i > 1
                   /\ Finished(i)
                   /\ invocations[i].error # "none"
                   /\ invocations[i].errorNotificationFailed
                   /\ invocations[i].result = "resolved"
                   /\ processExit = "none"

(***************************************************************************)
(* C11  At most once, as claimed: in every cycle there is at most one      *)
(* endpoint fetch, at most one AI call and at most one messaging send,     *)
(* whatever stages succeed or fail.                                        *)
(***************************************************************************)
C11_AtMostOnceAsClaimed ==
    \A i \in Ids :
        /\ invocations[i].fetches <= 1
        /\ invocations[i].aiCalls <= 1
        /\ invocations[i].sends <= 1

(***************************************************************************)
(* C11  At most once, amended: in every cycle there is at most one         *)
(* endpoint fetch and at most one AI call; the notifier is handed at most  *)
(* one change notification and at most one error notification, and each    *)
(* is sent at most once.  A cycle sends twice only when it fails after its *)
(* change notification was sent (the state write fails, or the notifier    *)
(* itself throws).                                                         *)
(***************************************************************************)
C11_AtMostOncePerStage ==
    \A i \in Ids :
        /\ invocations[i].fetches <= 1
        /\ invocations[i].aiCalls <= 1
        /\ invocations[i].changeNotifications <= 1
        /\ invocations[i].errorNotifications <= 1
        /\ invocations[i].sends
             <= invocations[i].changeNotifications + invocations[i].errorNotifications
        /\ invocations[i].sends > 1 =>
             /\ invocations[i].changeNotifications = 1
             /\ invocations[i].error \in {"storage", "notifier"}

\* the change notification was sent, the write of the new state failed, and
\* the error notification was sent too
C11_Witness ==
    \E i \in Ids : /\ Finished(i)
                   /\ invocations[i].error = "storage"
                   /\ invocations[i].writes = 1
                   /\ invocations[i].changeNotifications = 1
                   /\ invocations[i].sends = 2

(***************************************************************************)
(* C12  Persisted snapshot, as claimed: at the end of every cycle whose    *)
(* fetch returned a valid state, the state file holds (canonically) the    *)
(* state fetched in that cycle.                                            *)
(***************************************************************************)
C12_PersistedIsFetchedAsClaimed ==
    \A i \in Ids : (Finished(i) /\ ValidFetch(i)) =>
        CanonicallyEqual(stateFile, invocations[i].currentState)

(***************************************************************************)
(* C12  Persisted snapshot, amended: at the end of every cycle whose fetch *)
(* returned a valid state and which ended without an error, the state file *)
(* holds (canonically) the state fetched in that cycle, reported or not;   *)
(* a cycle that ended in an error left the state file as it found it.      *)
(***************************************************************************)
\* C12, the state part: a cycle without an error leaves the fetched state
C12_PersistedIsFetched ==
    \A i \in Ids : (Finished(i) /\ ValidFetch(i) /\ invocations[i].error = "none") =>
        CanonicallyEqual(stateFile, invocations[i].currentState)

\* C12, the step part: a cycle that ends in an error has not changed the file
C12_FailedCycleKeepsFile ==
    \A i \in Ids : (Running(i) /\ invocations'[i].error # "none") => stateFile' = stateFile

\* C12: the baseline is the state of the last cycle that ended without an error
C12_Baseline == []C12_PersistedIsFetched /\ [][C12_FailedCycleKeepsFile]_vars

\* a change that the summarizer found not worth reporting is the new baseline
C12_Witness ==
    \E i \in Ids : /\ Finished(i)
                   /\ HasVerdict(i)
                   /\ ~invocations[i].aiResult.isWorthToReport
                   /\ invocations[i].changeNotifications = 0
                   /\ invocations[i].lastState = ObjA1
                   /\ invocations[i].currentState = ObjA2
                   /\ stateFile = ObjA2

(***************************************************************************)
(* C13  Propagation policy: only a fetch, validation or storage failure    *)
(* takes a cycle to its catch block; a failure of the AI call, an invalid  *)
(* AI result, a failed construction of the messaging client or a failed    *)
(* send does not, and the state write that follows the summary takes       *)
(* place.                                                                  *)
(***************************************************************************)
C13_PropagationPolicy ==
    \A i \in Ids :
        /\ invocations[i].error \in {"none", "fetch", "validation", "storage"}
        /\ (HasVerdict(i) /\ invocations[i].pc \in {"errorSend", "done"}) =>
             invocations[i].writes = 1

(***************************************************************************)
(* C14  Shutdown: once the shutdown signal has arrived no trigger is       *)
(* issued, and the process does not exit while a cycle is in flight (the   *)
(* cycle reaches its finally block first).                                 *)
(***************************************************************************)
C14_InFlightCycleFinishes ==
    ExitedOnSignal => \A i \in Ids : ~Running(i)

\* the part of C14 that holds: no trigger after the signal
C14_NoTriggerAfterSignal == [][shutdown # "none" => ~Triggered]_vars

(***************************************************************************)
(* C15  At every instant at most one collaborator operation (fetch, AI     *)
(* call, send, state-file read or write) is in flight in the process, and  *)
(* a cycle issues its operations one after the other: the next one in the  *)
(* step in which the one before has settled, and one at a time.            *)
(***************************************************************************)
\* C15, the state part
C15_OneInFlight == InFlight <= 1

\* C15, the step part: an invocation issues an operation only when the one it
\* awaited settles, and then one only
C15_Sequential ==
    \A i \in Ids : Issued(invocations'[i]) > Issued(invocations[i]) =>
        /\ Running(i)
        /\ Issued(invocations'[i]) = Issued(invocations[i]) + 1

\* C15: no two collaborator operations are in flight at once
C15_NoParallelIO == []C15_OneInFlight /\ [][C15_Sequential]_vars

\* a cycle awaits its write after a fetch, a read, an AI call and a send, and
\* a trigger has come meanwhile
C15_Witness ==
    \E i, j \in Ids : /\ i < j
                      /\ invocations[i].pc = "write"
                      /\ Issued(invocations[i]) = 5
                      /\ invocations[j].pc = "skipped"
                      /\ InFlight = 1

(***************************************************************************)
(* C16  Short-circuit: for a ChangeSet that is empty or has only segments  *)
(* that are neither added nor removed, generateChangeSummary returns       *)
(* {isWorthToReport: false, reportedChanges: "No changes detected."} and   *)
(* does not call the AI provider.                                          *)
(***************************************************************************)
C16_ShortCircuit ==
    (call.fn = "generateChangeSummary" /\ ~EffectiveChanges) =>
        /\ call.aiCalls = 0
        /\ call.pc \in {"called", "returned"}
        /\ call.pc = "returned" =>
             /\ call.settled = "resolved"
             /\ call.result = [isWorthToReport |-> FALSE,
                               reportedChanges |-> <<"No changes detected", ".">>]

\* the call has returned for a ChangeSet of two unchanged segments
C16_Witness ==
    /\ SummaryReturned
    /\ Len(call.changes) = 2
    /\ ~EffectiveChanges
    /\ call.result.reportedChanges = <<"No changes detected", ".">>

C18_PassedThroughUnchanged ==
    (SummaryReturned /\ call.outcome.kind = "object") =>
        /\ call.settled = "resolved"
        /\ IF SchemaMembers \subseteq call.outcome.members
           THEN /\ call.outcome.members = SchemaMembers
                /\ call.result.isWorthToReport = call.outcome.isWorthToReport
                /\ call.result.reportedChanges = call.outcome.reportedChanges
           ELSE /\ ~call.result.isWorthToReport
                /\ Contains(call.result.reportedChanges,
                            "Error: AI response did not match expected format")

(***************************************************************************)
(* C18  Amended: an object that lacks a member of the schema gives         *)
(* isWorthToReport = false and a text that holds the validation failure    *)
(* (the fixed prefix, an issue for each missing member, and the default    *)
(* error text), without a throw; an object that has both members is        *)
(* returned with these two members unchanged, and any other member it has  *)
(* is dropped.                                                             *)
(***************************************************************************)
C18_ValidatedResult ==
    (SummaryReturned /\ call.outcome.kind = "object") =>
        /\ call.settled = "resolved"
        /\ IF SchemaMembers \subseteq call.outcome.members
           THEN /\ call.result.isWorthToReport = call.outcome.isWorthToReport
                /\ call.result.reportedChanges = call.outcome.reportedChanges
                /\ DOMAIN call.result = SchemaMembers
           ELSE /\ ~call.result.isWorthToReport
                /\ Contains(call.result.reportedChanges,
                            "Error: AI response did not match expected format")
                /\ "isWorthToReport" \notin call.outcome.members =>
                     Contains(call.result.reportedChanges, "Required: isWorthToReport")
                /\ "reportedChanges" \notin call.outcome.members =>
                     Contains(call.result.reportedChanges, "Required: reportedChanges")
                /\ Contains(call.result.reportedChanges, "Error generating change summary")

\* the provider returned an object without isWorthToReport, as in the test
C18_Witness ==
    /\ SummaryReturned
    /\ call.outcome.kind = "object"
    /\ call.outcome.members = {"reportedChanges"}
    /\ call.outcome.isWorthToReport
    /\ ~call.result.isWorthToReport
    /\ Contains(call.result.reportedChanges, "Required: isWorthToReport")

(***************************************************************************)
(* C19  Every result generateChangeSummary returns, on every path, has a   *)
(* non-empty reportedChanges.                                              *)
(***************************************************************************)
C19_AlwaysPopulated ==
    SummaryReturned => Len(call.result.reportedChanges) > 0

(***************************************************************************)
(* C20  sendTelegramNotification never throws and never rejects, in every  *)
(* state of the notifier and whatever bot.sendMessage rejects with: no     *)
(* cycle reaches its catch block because of the notifier, and no error     *)
(* notification fails.                                                     *)
(***************************************************************************)
C20_NotifierNeverThrows ==
    \A i \in Ids :
        /\ invocations[i].error # "notifier"
        /\ ~invocations[i].errorNotificationFailed

(***************************************************************************)
(* C21  The messaging client is built at most once in the life of the      *)
(* notifier: over any sequence of calls new TelegramBot is evaluated at    *)
(* most once, the state resolved by the first call (Ready, Disabled or     *)
(* FailedInit) never changes, and a failed construction is not retried.    *)
(***************************************************************************)
\* C21, the state part
C21_ConstructedAtMostOnce ==
    /\ notifier.ctorCalls <= 1
    /\ call.calls > 0 => NotifierState # "Uninitialized"
    /\ NotifierState = "FailedInit" => notifier.ctorCalls = 1

\* C21, the step part: a resolved state is kept
C21_StateCached == notifier.isBotInitialized => notifier' = notifier

\* C21: one initialisation, cached for the life of the notifier
C21_InitialisedOnce == []C21_ConstructedAtMostOnce /\ [][C21_StateCached]_vars

\* the construction failed in the first call and two more calls have returned
C21_Witness ==
    /\ NotifyReturned
    /\ call.calls = 3
    /\ NotifierState = "FailedInit"
    /\ notifier.ctorCalls = 1

(***************************************************************************)
(* C22  Without the bot token or the chat id the notifier becomes Disabled *)
(* and new TelegramBot is never evaluated; in Disabled and in FailedInit   *)
(* no call invokes bot.sendMessage.                                        *)
(***************************************************************************)
C22_NoClientNoSend ==
    /\ (CredentialsAbsent /\ call.calls > 0) =>
         /\ NotifierState = "Disabled"
         /\ notifier.ctorCalls = 0
    /\ NotifierState \in {"Disabled", "FailedInit"} =>
         /\ call.sends = 0
         /\ call.pc # "sending"

\* two calls were made without a chat id; both were skipped
C22_Witness ==
    /\ NotifyReturned
    /\ call.calls = 2
    /\ config.telegramBotToken = "token"
    /\ config.telegramChatId = ""
    /\ NotifierState = "Disabled"
    /\ call.sends = 0

(***************************************************************************)
(* C23  No notification is silently lost: every call that does not deliver *)
(* its message (Disabled, FailedInit, or Ready with a failing send) writes *)
(* the full text of the message to the log during the call.                *)
(***************************************************************************)
C23_UndeliveredIsLogged ==
    (NotifyReturned /\ ~call.delivered) => MessageLogged

(***************************************************************************)
(* C24  escapeMarkdownV2 puts a backslash before every reserved character  *)
(* except one preceded by an unescaped backslash (a backslash that is not  *)
(* itself escaped by a backslash before it) and changes nothing else: a    *)
(* reserved character after an escaped backslash is still escaped.         *)
(***************************************************************************)
C24_EscapesAsClaimed ==
    (call.fn = "escapeMarkdownV2" /\ call.pc # "called") =>
        call.once = ClaimedEscapeFrom(call.text, 1)

(***************************************************************************)
(* C25  escapeMarkdownV2 never escapes twice: applied to its own result it *)
(* returns that result, and a text in which every reserved character has a *)
(* backslash in front is returned as it is.                                *)
(***************************************************************************)
C25_Idempotent ==
    /\ (call.fn = "escapeMarkdownV2" /\ call.pc = "returnedAgain") => call.twice = call.once
    /\ (call.fn = "escapeMarkdownV2" /\ call.pc # "called" /\ AllReservedPreceded(call.text)) =>
         call.once = call.text

\* a text with a bare and an escaped reserved character, escaped twice
C25_Witness ==
    /\ call.fn = "escapeMarkdownV2"
    /\ call.pc = "returnedAgain"
    /\ call.text = <<"!", Backslash, "_">>
    /\ call.once = <<Backslash, "!", Backslash, "_">>
    /\ call.twice = call.once

(***************************************************************************)
(* C26  Round trip of the state store: after a writeState(s) that          *)
(* succeeded, a readLastState() that succeeds, with no write in between,   *)
(* returns a value structurally equal to s.                                *)
(***************************************************************************)
C26_RoundTrip ==
    (StoreReturned("read") /\ call.lastWritten # Absent /\ call.failure = "none") =>
        /\ call.settled = "resolved"
        /\ CanonicallyEqual(call.result, call.lastWritten)
        /\ call.result = call.lastWritten

\* a nested state with its members out of key order was written and read back
C26_Witness ==
    /\ StoreReturned("read")
    /\ call.failure = "none"
    /\ call.lastWritten = ObjBA
    /\ call.result = ObjBA

(***************************************************************************)
(* C27  readLastState returns null, not an error, when the state file does *)
(* not exist, and absorbs nothing else: a permission error and a content   *)
(* that does not parse are thrown on; writeState throws on every failure.  *)
(***************************************************************************)
C27_OnlyMissingFileAbsorbed ==
    /\ StoreReturned("read") =>
         IF call.failure = "none"
         THEN call.settled = "resolved" /\ call.result # Absent
         ELSE IF call.failure = "ENOENT"
              THEN /\ call.settled = "resolved"
                   /\ call.result = Absent
                   /\ ~call.file.exists
              ELSE /\ call.settled = "rejected"
                   /\ call.thrown = call.failure
    /\ (StoreReturned("read") /\ ~call.file.exists) =>
         \/ call.settled = "resolved" /\ call.result = Absent
         \/ call.settled = "rejected" /\ call.failure = "EACCES"
    /\ StoreReturned("write") =>
         IF call.failure = "none"
         THEN call.settled = "resolved"
         ELSE call.settled = "rejected" /\ call.thrown = call.failure

\* a read of a file that does not parse has thrown
C27_Witness ==
    /\ StoreReturned("read")
    /\ call.file = FileOf(Unparseable)
    /\ call.failure = "SyntaxError"
    /\ call.settled = "rejected"

(***************************************************************************)
(* C28  compareJson(x, x') is null whenever x' is x with the members of    *)
(* its objects in another order, at any depth.                             *)
(***************************************************************************)
C28_KeyOrderIgnored ==
    (CompareDone /\ SameUpToKeyOrder(call.oldState, call.newState)) =>
        call.result = NullChanges

\* the members are in another order at both depths
C28_Witness ==
    /\ CompareDone
    /\ call.oldState = JObj(<< <<"a", JNum(1)>>, <<"b", NestedAC>> >>)
    /\ call.newState = JObj(<< <<"b", NestedCA>>, <<"a", JNum(1)>> >>)
    /\ call.result = NullChanges

(***************************************************************************)
(* C29  compareJson(x, y) returns a non-empty ChangeSet if and only if the *)
(* key-sorted serializations of x and y differ; every segment of a         *)
(* returned ChangeSet is marked added or removed, and there is at least    *)
(* one.                                                                    *)
(***************************************************************************)
C29_ChangesIffDifferent ==
    CompareDone =>
        /\ (Len(call.result) > 0) <=> ~SameUpToKeyOrder(call.oldState, call.newState)
        /\ (Len(call.result) > 0) <=>
             (serializeState(canonicalize(call.oldState))
                # serializeState(canonicalize(call.newState)))
        /\ \A k \in 1..Len(call.result) :
             call.result[k].added # call.result[k].removed

\* the number 1 became the string "1", among members that did not change
C29_Witness ==
    /\ CompareDone
    /\ call.oldState = JObj(<< <<"a", JNum(1)>>, <<"b", NestedAC>> >>)
    /\ call.newState = JObj(<< <<"b", NestedCA>>, <<"a", JStr("1")>> >>)
    /\ Len(call.result) = 2
    /\ call.result[1].removed
    /\ call.result[2].added

(***************************************************************************)
(* C30  fetchJsonData makes one transport attempt in each call, never a    *)
(* second; it rejects when the transport fails, when the status of the     *)
(* response is not a success status and when the body is not JSON, and     *)
(* otherwise it returns the parsed body.                                   *)
(***************************************************************************)
C30_OneAttempt ==
    /\ call.attempts <= 1
    /\ call.transports = call.calls
    /\ FetcherReturned =>
         /\ call.attempts = 1
         /\ IF \/ call.transport = "error"
               \/ call.status < 200
               \/ call.status > 299
               \/ call.body = NotJson
            THEN call.settled = "rejected"
            ELSE call.settled = "resolved" /\ call.result = call.body

\* the third call in a row got a 404 and threw
C30_Witness ==
    /\ FetcherReturned
    /\ call.calls = 3
    /\ call.transports = 3
    /\ call.status = 404
    /\ call.settled = "rejected"

(***************************************************************************)
(* C31: at process start a startup notification is attempted exactly once, *)
(* before the first fetch, if and only if TELEGRAM_NOTIFY_ON_START is      *)
(* true; whether or not it is delivered, the immediate first cycle runs.   *)
(***************************************************************************)
\* main() has got past the startup notification
StartupSettled == mainPc \notin {"start", "startupSend"}

\* the immediate first cycle has been started
FirstCycleStarted == Len(invocations) >= 1 /\ invocations[1].source = "startup"

\* once main() is past it, one attempt with the flag set and none without; no
\* cycle is started, and main() does not end, before the attempt has settled
C31_AttemptedOnceBeforeFirstFetch ==
    /\ startup.notifications <= 1
    /\ startup.sends <= startup.notifications
    /\ mainPc # "start" =>
         startup.notifications = (IF config.telegramNotifyOnStart THEN 1 ELSE 0)
    /\ ~StartupSettled => invocations = <<>>
    /\ StartupSettled => (startup.delivery = "none" <=> ~config.telegramNotifyOnStart)
    /\ mainPc \in {"awaitInitial", "scheduled", "exited"} => FirstCycleStarted

\* the attempt is not repeated later in the life of the process
C31_NoLaterAttempt == [][StartupSettled => startup' = startup]_vars

C31_StartupNotification ==
    /\ []C31_AttemptedOnceBeforeFirstFetch
    /\ C31_NoLaterAttempt
    /\ <>FirstCycleStarted

\* the startup notification was sent and not delivered, and the first cycle
\* has issued its fetch
C31_Witness ==
    /\ config.telegramNotifyOnStart
    /\ startup.notifications = 1
    /\ startup.sends = 1
    /\ startup.delivery = "failed"
    /\ FirstCycleStarted
    /\ invocations[1].pc = "fetch"

(***************************************************************************)
(* C32: a cycle that reaches the top-level error handler attempts exactly  *)
(* one error notification, carrying at most the first 500 characters of    *)
(* the error description; a cycle that ends without an uncaught error      *)
(* attempts none; a failed error notification triggers no further          *)
(* notification.                                                           *)
(***************************************************************************)
\* the characters of a notification body without the escaping backslashes
NotBackslash(c) == c # Backslash

Unescaped(body) == SelectSeq(body, NotBackslash)

\* text p is the beginning of text d, chunk by chunk up to a last chunk of p
\* that may be the beginning of a run of d
IsBeginningOf(p, d) ==
    /\ Len(p) <= Len(d)
    /\ \A k \in 1..Len(p) :
         \/ p[k] = d[k]
         \/ /\ k = Len(p)
            /\ d[k] \notin Reserved
            /\ Len(p[k]) <= Len(d[k])
            /\ p[k] = SubSeq(d[k], 1, Len(p[k]))

\* the error notification of invocation i carries at most the first 500
\* characters of the description of its error, all of them when there are no
\* more, and says so when it was cut
CarriesFirstCharacters(i) ==
    LET description == errorDescription(invocations[i].error)
        carried == Unescaped(invocations[i].errorText.body)
    IN  /\ invocations[i].errorText.kind = "error"
        /\ textLength(carried) <= 500
        /\ IsBeginningOf(carried, description)
        /\ textLength(description) <= 500 => carried = description
        /\ invocations[i].errorText.marker # "" <=> textLength(description) > 500

\* the cycle of invocation i has reached the catch block
ReachedHandler(i) == invocations[i].error # "none"

C32_OneErrorNotification ==
    \A i \in Ids :
        /\ invocations[i].errorNotifications <= 1
        /\ (ReachedHandler(i) /\ invocations[i].pc \in {"errorSend", "done"}) =>
             /\ invocations[i].errorNotifications = 1
             /\ CarriesFirstCharacters(i)
        /\ (Finished(i) /\ ~ReachedHandler(i)) =>
             /\ invocations[i].errorNotifications = 0
             /\ invocations[i].errorText = NoErrorText
        /\ invocations[i].errorNotificationFailed =>
             /\ Finished(i)
             /\ invocations[i].errorNotifications = 1
             /\ invocations[i].sends <= invocations[i].changeNotifications + 1

\* a cycle whose write failed sent an error notification that was cut at 500
\* characters, and that notification failed; the cycle ended there
C32_Witness ==
    \E i \in Ids :
        /\ Finished(i)
        /\ invocations[i].error = "storage"
        /\ invocations[i].errorNotifications = 1
        /\ invocations[i].errorNotificationFailed
        /\ invocations[i].errorText.marker = "...[truncated]"
        /\ textLength(Unescaped(invocations[i].errorText.body)) = 500

(***************************************************************************)
(* C33: the diff text sent to the AI is the full rendering when that has   *)
(* at most 3000 characters, and otherwise exactly its first 3000           *)
(* characters followed by the truncation marker; its length never exceeds  *)
(* 3000 plus the length of the marker.                                     *)
(***************************************************************************)
\* generateChangeSummary, called on its own, has called generateObject
ProviderCalled == call.fn = "generateChangeSummary" /\ call.aiCalls = 1

TruncationMarker == "\n... [diff truncated] ..."

C33_TruncatedDiff ==
    /\ ProviderCalled =>
         LET rendering == formatDiffForAI(call.changes)
         IN  /\ Len(rendering) <= 3000 => call.userPrompt = rendering
             /\ Len(rendering) > 3000 =>
                  /\ SubSeq(call.userPrompt, 1, 3000) = SubSeq(rendering, 1, 3000)
                  /\ SubSeq(call.userPrompt, 3001, Len(call.userPrompt)) = TruncationMarker
             /\ Len(call.userPrompt) <= 3000 + Len(TruncationMarker)
    /\ (call.fn = "generateChangeSummary" /\ call.aiCalls = 0) => call.userPrompt = ""

\* a rendering of 3001 characters was sent as 3000 characters and the marker
C33_Witness ==
    /\ ProviderCalled
    /\ Len(formatDiffForAI(call.changes)) = 3001
    /\ Len(call.userPrompt) = 3000 + Len(TruncationMarker)

(***************************************************************************)
(* C34: the system instruction sent to the AI contains exactly one of two  *)
(* clauses: with custom significance criteria configured (non-empty), the  *)
(* criteria clause naming them and not the "any detected change is         *)
(* significant" clause; with none configured, the "any change" clause and  *)
(* no criteria clause.                                                     *)
(***************************************************************************)
\* how often a text holds a chunk
Occurrences(text, chunk) == Cardinality({k \in 1..Len(text) : text[k] = chunk})

CriteriaOpening == "CRITERIA FOR SIGNIFICANCE: \""

AnyChangeOpening ==
    "Since no specific reporting criteria are provided, consider ANY detected changes significant enough to report. Set "

\* the criteria clause of a prompt names the criteria c
NamesCriteria(prompt, c) ==
    \E k \in 1..(Len(prompt) - 1) : prompt[k] = CriteriaOpening /\ prompt[k + 1] = c

C34_OneClause ==
    ProviderCalled =>
        IF config.openaiCustomPromptContext # ""
        THEN /\ Occurrences(call.systemPrompt, CriteriaOpening) = 1
             /\ NamesCriteria(call.systemPrompt, config.openaiCustomPromptContext)
             /\ Occurrences(call.systemPrompt, AnyChangeOpening) = 0
        ELSE /\ Occurrences(call.systemPrompt, AnyChangeOpening) = 1
             /\ Occurrences(call.systemPrompt, CriteriaOpening) = 0

\* generateObject was called with criteria configured, and the prompt names
\* them
C34_Witness ==
    /\ ProviderCalled
    /\ config.openaiCustomPromptContext = "Only report changes to the name field."
    /\ NamesCriteria(call.systemPrompt, "Only report changes to the name field.")

(***************************************************************************)
(* C35: the stages of a cycle come in the order fetch, read of the last    *)
(* state, compare, summarize, notify, write: a change notification's send  *)
(* has completed before the write starts.  When the write fails after the  *)
(* notification was sent, the persisted baseline is unchanged, and a cycle *)
(* that finds a difference against its baseline summarizes it, so a        *)
(* following cycle that fetches the same state summarizes it again.        *)
(***************************************************************************)
\* no stage of invocation i has begun before the stages ahead of it are over
C35_StageOrder ==
    \A i \in Ids :
        /\ invocations[i].reads > 0 => invocations[i].fetches = 1 /\ ValidFetch(i)
        /\ invocations[i].compares > 0 => invocations[i].readReturned
        /\ invocations[i].aiCalls > 0 => invocations[i].compares = 1
        /\ invocations[i].changeNotifications > 0 => invocations[i].aiCalls = 1
        /\ (invocations[i].writes > 0 /\ invocations[i].lastState # Absent) =>
             invocations[i].aiCalls = 1
        /\ invocations[i].writes > 0 => invocations[i].readReturned
        /\ invocations[i].pc \in {"fetch", "json"} =>
             invocations[i].reads = 0
        /\ invocations[i].pc \in {"fetch", "json", "read"} =>
             /\ invocations[i].compares = 0
             /\ invocations[i].aiCalls = 0
        /\ invocations[i].pc \in {"fetch", "json", "read", "ai"} =>
             /\ invocations[i].changeNotifications = 0
             /\ invocations[i].sends = 0
        /\ invocations[i].pc \in {"fetch", "json", "read", "ai", "send"} =>
             invocations[i].writes = 0

\* the step in which the write of invocation i fails leaves in the file the
\* baseline the cycle compared against
C35_FailedWriteKeepsBaseline ==
    \A i \in Ids :
        (invocations[i].pc = "write" /\ invocations'[i].error = "storage") =>
            /\ stateFile' = stateFile
            /\ stateFile' = invocations[i].lastState

\* a cycle reads the baseline the file holds, and a baseline that differs
\* from the fetched state is summarized
C35_DifferenceSummarized ==
    \A i \in Ids :
        /\ invocations[i].pc \in {"ai", "send", "write"} =>
             invocations[i].lastState = stateFile
        /\ (/\ invocations[i].readReturned
            /\ invocations[i].lastState # Absent
            /\ ~CanonicallyEqual(invocations[i].lastState, invocations[i].currentState)) =>
               /\ invocations[i].compares = 1
               /\ invocations[i].aiCalls = 1

C35_NotifyBeforeWrite ==
    /\ []C35_StageOrder
    /\ [][C35_FailedWriteKeepsBaseline]_vars
    /\ []C35_DifferenceSummarized

\* a cycle sent its change notification, then its write failed: the file
\* still holds the baseline, which differs from the fetched state
C35_Witness ==
    \E i \in Ids :
        /\ Finished(i)
        /\ invocations[i].error = "storage"
        /\ invocations[i].changeNotifications = 1
        /\ invocations[i].sends >= 1
        /\ invocations[i].writes = 1
        /\ stateFile = invocations[i].lastState
        /\ ~CanonicallyEqual(stateFile, invocations[i].currentState)

(***************************************************************************)
(* C36: the core imposes no timeout.  While an awaited collaborator call   *)
(* of a running cycle has not completed, the guard stays held, the cycle   *)
(* does not end, and every trigger is skipped: no further fetch,           *)
(* notification or write happens.                                          *)
(***************************************************************************)
\* the awaited call of invocation i is still pending after the step
StillPending(i) == Running(i) /\ invocations'[i].pc = invocations[i].pc

\* a step that leaves the call of a running cycle pending leaves the cycle,
\* the guard, the file and the notifier as they are; a trigger in that step
\* is skipped and calls no collaborator; and no trigger ends a running cycle
C36_PendingCallBlocks ==
    \A i \in Ids :
        /\ StillPending(i) =>
             /\ isJobRunning /\ isJobRunning'
             /\ invocations'[i] = invocations[i]
             /\ stateFile' = stateFile
             /\ notifier' = notifier
             /\ processExit' = processExit
             /\ \A j \in Ids : Issued(invocations'[j]) <= Issued(invocations[j])
             /\ Triggered =>
                  /\ invocations'[Len(invocations')].pc = "skipped"
                  /\ Issued(invocations'[Len(invocations')]) = 0
        /\ (Running(i) /\ Triggered) => StillPending(i)

C36_NoTimeout == [][C36_PendingCallBlocks]_vars

\* the fetch of a scheduled cycle has not completed, and the two triggers
\* that came after it were skipped
C36_Witness ==
    /\ Len(invocations) = 4
    /\ invocations[2].pc = "fetch"
    /\ invocations[3].pc = "skipped"
    /\ invocations[4].pc = "skipped"
    /\ isJobRunning

(***************************************************************************)
(* C37: readLastState and writeState check the containing directory        *)
(* before touching the state file.  The directory is created if and only   *)
(* if the existence check fails with "not found", always before the file   *)
(* read or write; if the check fails with any other error the operation    *)
(* fails without creating the directory and without reading or writing     *)
(* the file.                                                               *)
(***************************************************************************)
\* a call of the store is under way or has settled
StoreCallMade == call.fn = "storage" /\ call.op \in {"read", "write"}

C37_DirectoryCheckedFirst ==
    StoreCallMade =>
        /\ call.mkdirs <= 1
        /\ call.fileCalls <= 1
        /\ call.access = "none" <=> call.pc = "access"
        /\ call.pc = "access" => call.mkdirs = 0 /\ call.fileCalls = 0
        /\ call.mkdirs = 1 <=> call.access = "ENOENT"
        /\ call.pc = "mkdir" => call.fileCalls = 0
        /\ call.fileCalls = 1 =>
             \/ call.access = "ok" /\ call.mkdirs = 0
             \/ call.access = "ENOENT" /\ call.mkdirs = 1 /\ call.dir
        /\ call.access \notin {"none", "ok", "ENOENT"} =>
             /\ call.pc = "returned"
             /\ call.settled = "rejected"
             /\ call.thrown = call.access
             /\ call.mkdirs = 0
             /\ call.fileCalls = 0

\* writeState found no directory, created it, and wrote the file
C37_Witness ==
    /\ StoreReturned("write")
    /\ call.access = "ENOENT"
    /\ call.mkdirs = 1
    /\ call.fileCalls = 1
    /\ call.settled = "resolved"
    /\ call.file.exists

(***************************************************************************)
(* C38: a send failure does not change the notifier's state.  After a      *)
(* call whose send failed while Ready the notifier is still Ready, and the *)
(* next call invokes the provider's send again with the same client,       *)
(* without another construction.                                           *)
(***************************************************************************)
\* the step in which the send of the current call fails
SendFails == call.pc = "sending" /\ call'.pc = "returned" /\ ~call'.delivered

\* the step that makes the next call after one whose send failed
CalledAfterFailure ==
    /\ call.pc = "returned"
    /\ NotifierState = "Ready"
    /\ ~call.delivered
    /\ call'.calls = call.calls + 1

C38_FailureKeepsReady ==
    /\ SendFails => (NotifierState = "Ready" /\ notifier' = notifier)
    /\ CalledAfterFailure =>
         /\ notifier' = notifier
         /\ call'.pc = "sending"
         /\ call'.sends = call.sends + 1

\* while Ready every call so far has invoked bot.sendMessage, on the client
\* of the one construction
C38_EveryCallSends ==
    NotifierState = "Ready" =>
        /\ call.sends = call.calls
        /\ notifier.ctorCalls = 1
        /\ notifier.botInstance = "bot"

C38_SendFailureIsNoStateChange == []C38_EveryCallSends /\ [][C38_FailureKeepsReady]_vars

\* the send of the first call failed and the second call is sending, on the
\* client built once
C38_Witness ==
    /\ call.fn = "sendTelegramNotification"
    /\ call.pc = "sending"
    /\ call.calls = 2
    /\ call.sends = 2
    /\ call.undelivered = 1
    /\ notifier.ctorCalls = 1
    /\ NotifierState = "Ready"

(***************************************************************************)
(* C39: the immediate startup cycle has finished and released the guard    *)
(* before the periodic trigger is registered, so no scheduled trigger can  *)
(* overlap with the startup cycle or be skipped because of it.             *)
(***************************************************************************)
\* the step in which main() registers the scheduled job
JobRegistered == mainPc # "scheduled" /\ mainPc' = "scheduled"

\* the startup cycle is over
StartupCycleOver == Len(invocations) >= 1 /\ invocations[1].pc \in {"done", "retired"}

\* with the job registered, and so with any scheduler callback made, the
\* startup cycle is over; a skipped trigger came after a scheduled cycle
C39_StartupCycleOver ==
    /\ mainPc = "scheduled" => StartupCycleOver
    /\ \A i \in Ids :
         invocations[i].source = "scheduler" =>
             /\ i > 1
             /\ StartupCycleOver
             /\ invocations[1].source = "startup"
             /\ invocations[i].pc = "skipped" =>
                  \E j \in Ids : /\ j > 1 /\ j < i
                                 /\ invocations[j].source = "scheduler"
                                 /\ invocations[j].pc # "skipped"

\* at the registration the guard is free; the startup cycle is never
\* executing in a step that calls the scheduler's callback, and the cycle a
\* skipped callback meets is a scheduled one
C39_RegisteredWithGuardFree ==
    /\ JobRegistered => (~isJobRunning /\ StartupCycleOver)
    /\ (Triggered /\ Len(invocations) >= 1) =>
         /\ ~Running(1)
         /\ invocations'[Len(invocations')].pc = "skipped" =>
              \E j \in Ids : j > 1 /\ Running(j) /\ invocations[j].source = "scheduler"

C39_StartupCycleFirst == []C39_StartupCycleOver /\ [][C39_RegisteredWithGuardFree]_vars

\* the first scheduled trigger found the guard free and its cycle is
\* fetching; the startup cycle had resolved
C39_Witness ==
    /\ mainPc = "scheduled"
    /\ Len(invocations) = 2
    /\ invocations[1].source = "startup"
    /\ invocations[1].result = "resolved"
    /\ invocations[2].source = "scheduler"
    /\ invocations[2].pc = "fetch"
    /\ invocations[2].fetches = 1

(***************************************************************************)
(* C40: every value a cycle writes to the state store passed the payload   *)
(* validation of that cycle (it is a non-null value of JavaScript type     *)
(* 'object'); the persisted snapshot is never a string, a number, a        *)
(* boolean or null, so readLastState returns absent only when the state    *)
(* file does not exist.                                                    *)
(***************************************************************************)
\* a value the caller of readLastState takes for "no previous state"
ReadsAsAbsent(v) == v = Absent \/ v = JNull

\* what is written is the fetched state of the cycle, of type 'object', and
\* so is what the file holds
C40_SnapshotIsObject ==
    /\ stateFile # Absent => stateFile.t \in {"obj", "arr"}
    /\ stateFile.t \notin {"str", "num", "bool", "null"}
    /\ \A i \in Ids :
         invocations[i].writes > 0 =>
             /\ invocations[i].written = invocations[i].currentState
             /\ invocations[i].written.t \in {"obj", "arr"}

\* the step in which readLastState returns to invocation i
ReadReturns(i) == ~invocations[i].readReturned /\ invocations'[i].readReturned

\* readLastState returns absent only when there is no state file
C40_AbsentOnlyWithoutFile ==
    \A i \in Ids :
        (ReadReturns(i) /\ ReadsAsAbsent(invocations'[i].lastState)) => stateFile = Absent

C40_PersistedPassedValidation ==
    []C40_SnapshotIsObject /\ [][C40_AbsentOnlyWithoutFile]_vars

\* a cycle has replaced the snapshot by a fetched array, and the next cycle
\* has read that array back
C40_Witness ==
    \E i \in Ids :
        /\ i > 1
        /\ invocations[i].readReturned
        /\ invocations[i].lastState = ArrOne
        /\ stateFile = ArrOne

=============================================================================
